---- MODULE Spec2Model ----
(***************************************************************************)
(* Cache and Update Manager of the explorer (src/cache.js) together with   *)
(* the dashboard handlers of src/server.js that force a refresh.           *)
(*                                                                         *)
(* Node runs one callback at a time: every action below is one run of a    *)
(* callback up to its next await.  A continuation of an already resolved   *)
(* promise (a microtask) runs before any timer, request or response        *)
(* callback; the guard NoMicrotask on those callbacks states that.         *)
(***************************************************************************)
EXTENDS Integers, Sequences, FiniteSets, TLC

\* ---------------------------------------------------------------- bounds
\* The clock advances in steps of UPDATE_INTERVAL, MaxTime steps at most.
MaxTime == 7
\* At most MaxCycles Update Manager cycles are started.
MaxCycles == 2
\* The clock steps of the specification with fairness.
LiveMaxTime == 1
\* The calls and clock steps of the specification of the two cache tiers.
MaxCalls == 4
\* The calls of the handlers' fetchFromElectrs, and the clock steps between
\* them.
MaxFetches == 3
MaxWaits == 2
\* The calls made on the statistics store, and the days that pass between
\* them.
MaxStoreOps == 4
MaxDays == 2
\* The longest block list the derivations are applied to.
MaxBlocks == 3
\* The clock steps of the specification of recovery.
RecoverMaxTime == 2
\* The clock steps of the specification of repeated starts.
StartMaxTime == 2
\* The handler fetches of the specification of the handlers next to the
\* Update Manager.
MaxServeFetches == 2
\* The dashboard requests of the specification of the two handlers.
MaxHandlers == 2

\* ------------------------------------------------------------- constants
UPDATE_INTERVAL == 10 * 1000
LIVE_TTL_AS_IMMUTABLE == 60 * 60 * 1000
LIVE_TTL == 60 * 1000
IMMUTABLE_TTL == 60 * 60 * 1000
AXIOS_TIMEOUT == 10000
FRESH_WINDOW == 30000
DEFAULT_BLOCK_TIME == 120
SLICE_END == 15
DAY_SECONDS == 24 * 60 * 60

\* Date.now() when the module is loaded.  The real clock is far past the
\* freshness window; the value is scaled down to fit TLC's integers.
StartTime == 100 * UPDATE_INTERVAL
\* The same instant in seconds: 00:16:40 UTC of day 100.
BootSec == 100 * DAY_SECONDS + 1000

LIVE_KEYS ==
  [DASHBOARD |-> "live:dashboard", BLOCKS |-> "live:blocks",
   TIP_HEIGHT |-> "live:tipHeight", MEMPOOL |-> "live:mempool",
   BLOCK_REWARD |-> "live:blockReward"]

LiveKeySet ==
  {LIVE_KEYS.DASHBOARD, LIVE_KEYS.BLOCKS, LIVE_KEYS.TIP_HEIGHT,
   LIVE_KEYS.MEMPOOL, LIVE_KEYS.BLOCK_REWARD}

\* ------------------------------------------------- upstream (Electrs) data
\* What the indexing service can answer.  A block as /blocks returns it.
Block(h, ts) ==
  [id |-> h, height |-> h, timestamp |-> ts, difficulty |-> 1000 * h,
   tx_count |-> h + 2, size |-> 1000 * h]

\* /blocks answers most-recent-first: here none, or one block more than
\* the dashboard shows, the older ones mined the day before.
RecentBlocks ==
  [i \in 1..(SLICE_END + 1) |->
     Block(SLICE_END + 2 - i,
           BootSec - 380 - 100 * (i - 1) - (IF i > SLICE_END THEN 20 ELSE 0))]
BlockLists == { <<>>, RecentBlocks }

TipHeights == {SLICE_END + 1}
Mempools == { << "m1", "m2" >> }
Supplies == { [total_amount_float |-> 21000] }

CoinbaseTx ==
  [txid |-> "cb", vin |-> << [is_coinbase |-> TRUE] >>,
   vout |-> << [value |-> 30], [value |-> 20] >>]
PlainTx ==
  [txid |-> "pt", vin |-> << [is_coinbase |-> FALSE] >>,
   vout |-> << [value |-> 7] >>]
\* A coinbase that claims nothing.
ZeroCoinbaseTx ==
  [txid |-> "zc", vin |-> << [is_coinbase |-> TRUE] >>,
   vout |-> << [value |-> 0] >>]
\* /block/:id/txs/0 answers a list of transactions.
TxLists == { <<>>, << CoinbaseTx >>, << PlainTx >>, << ZeroCoinbaseTx >> }

\* Keys of the immutable cache written by the Update Manager: `tx:${txid}`.
TxKey(txid) == [prefix |-> "tx:", txid |-> txid]
ImmutableKeySet ==
  { TxKey(CoinbaseTx.txid), TxKey(PlainTx.txid), TxKey(ZeroCoinbaseTx.txid) }

Endpoints == {"blocks", "tip", "mempool", "supply"}

\* The paths handlers fetch through fetchFromElectrs of server.js.  A path
\* is given by its first segment, by the number of characters of [a-f0-9]
\* that follow it, and by what comes after those.
TxById == [head |-> "tx", hex |-> 64, tail |-> ""]
BlockTxs == [head |-> "block", hex |-> 64, tail |-> "/txs/0"]
TipHeightPath == [head |-> "blocks", hex |-> 0, tail |-> "tip/height"]
FetchEndpoints == {TxById, BlockTxs, TipHeightPath}
NoRequests == [e \in FetchEndpoints |-> 0]

\* `/tx/${txid}` for the coinbase transaction the Update Manager fetches,
\* and paths that address nothing by hash: /blocks, /mempool/recent,
\* /address/:address and /block-height/:height (a decimal number is made of
\* characters of [a-f0-9] too).
CoinbaseById ==
  [head |-> "tx", hex |-> 64, tail |-> "", txid |-> CoinbaseTx.txid]
BlocksPath == [head |-> "blocks", hex |-> 0, tail |-> ""]
MempoolRecentPath == [head |-> "mempool", hex |-> 0, tail |-> "recent"]
AddressPath == [head |-> "address", hex |-> 1, tail |-> ""]
BlockHeightPath == [head |-> "block-height", hex |-> 2, tail |-> ""]
ServeEndpoints ==
  {CoinbaseById, BlockTxs, BlocksPath, TipHeightPath, MempoolRecentPath,
   AddressPath, BlockHeightPath}

VARIABLES
  now,                  \* Date.now()
  mainpc,               \* server.js start-up: "init", "start", "serving"
  updateManagerRunning, \* cache.js:134
  lastUpdateTime,       \* cache.js:135
  updateInterval,       \* cache.js:209: TRUE when it holds a timer handle
  timerCount,           \* interval timers armed in the runtime
  ticksDue,             \* timer callbacks due at the current instant
  liveCache,            \* cache.js:23
  immutableCache,       \* cache.js:29
  db,                   \* cache.js:35 and the two tables
  cycleCount,           \* updateManager() runs that passed the guard
  cycles,               \* the runs in flight, by number
  stragglers,           \* requests still outstanding of runs that ended
  awaiting,             \* the runs whose promise a dashboard request awaits
  returned,             \* a dashboard request whose await has just returned
  requests,             \* upstream requests of handlers in flight
  upstream,             \* what the indexing service knows
  handlers,             \* the dashboard requests, by number
  hist                  \* history: what the last calls and runs did

vars ==
  << now, mainpc, updateManagerRunning, lastUpdateTime, updateInterval,
     timerCount, ticksDue, liveCache, immutableCache, db, cycleCount,
     cycles, stragglers, awaiting, returned, requests, upstream, handlers,
     hist >>

\* ------------------------------------------------------------ LRU caches
\* new LRUCache({ max, ttl }).  A tier maps each key to NoEntry or to a
\* stored entry: its value, the time of its set, and its rank in the
\* recency list (1: most recently used; the stored entries hold 1..size).
NoEntry == [present |-> FALSE]
Undefined == [present |-> FALSE]
Value(v) == [present |-> TRUE, value |-> v]

\* new LRUCache({ max: 100, ... }) and new LRUCache({ max: 1000, ... })
LIVE_MAX == 100
IMMUTABLE_MAX == 1000

Stored(cache) == { k \in DOMAIN cache : cache[k].present }
Size(cache) == Cardinality(Stored(cache))

\* lru-cache: an entry is stale once its age exceeds the ttl.
IsStale(entry, ttl) == now - entry.start > ttl

\* The stored entry `key` becomes the most recently used one.
Promote(cache, key) ==
  LET r == cache[key].used
  IN [k \in DOMAIN cache |->
        IF k = key THEN [cache[k] EXCEPT !.used = 1]
        ELSE IF cache[k].present /\ cache[k].used < r
        THEN [cache[k] EXCEPT !.used = @ + 1]
        ELSE cache[k]]

\* The stored entry `key` is removed.
Delete(cache, key) ==
  LET r == cache[key].used
  IN [k \in DOMAIN cache |->
        IF k = key THEN NoEntry
        ELSE IF cache[k].present /\ cache[k].used > r
        THEN [cache[k] EXCEPT !.used = @ - 1]
        ELSE cache[k]]

\* The least recently used entry of a tier that holds one.
LruKey(cache) == CHOOSE k \in Stored(cache) : cache[k].used = Size(cache)

\* What cache.get(key) returns.
CacheGet(cache, ttl, key) ==
  IF cache[key].present /\ ~IsStale(cache[key], ttl)
  THEN Value(cache[key].value)
  ELSE Undefined

\* The tier after cache.get(key): a stale entry is deleted, a fresh one
\* becomes the most recently used; its age is not reset.
CacheTouch(cache, ttl, key) ==
  IF ~cache[key].present THEN cache
  ELSE IF IsStale(cache[key], ttl) THEN Delete(cache, key)
  ELSE Promote(cache, key)

\* The tier after cache.set(key, value): the entry is (re)written with a new
\* start time and becomes the most recently used; a new key in a full tier
\* first evicts the least recently used entry.
CacheSet(cache, max, key, value) ==
  IF cache[key].present
  THEN Promote([cache EXCEPT ![key] =
                  [@ EXCEPT !.value = value, !.start = now]], key)
  ELSE LET room == IF Size(cache) >= max
                   THEN Delete(cache, LruKey(cache)) ELSE cache
       IN [k \in DOMAIN room |->
             IF k = key
             THEN [present |-> TRUE, value |-> value, start |-> now,
                   used |-> 1]
             ELSE IF room[k].present
             THEN [room[k] EXCEPT !.used = @ + 1]
             ELSE room[k]]

getLive(key) == CacheGet(liveCache, LIVE_TTL, key)
setLiveNoUpdateTTL(cache, key, value) ==
  IF cache[key].present
  THEN Promote([cache EXCEPT ![key] = [@ EXCEPT !.value = value]], key)
  ELSE CacheSet(cache, LIVE_MAX, key, value)
setLive(cache, key, value) == CacheSet(cache, LIVE_MAX, key, value)
getImmutable(key) == CacheGet(immutableCache, IMMUTABLE_TTL, key)
setImmutableNoMax(cache, key, value) ==
  CacheSet(cache, Size(cache) + 1, key, value)
setImmutable(cache, key, value) == CacheSet(cache, IMMUTABLE_MAX, key, value)

\* What a reader can get out of a tier: the answer of get for every key.
Contents(cache, ttl) == [k \in DOMAIN cache |-> CacheGet(cache, ttl, k)]

\* JavaScript truthiness of a cached number: undefined and 0 are falsy.
NotUndefined(r) == r.present
Truthy(r) == r.present /\ r.value # 0

getDashboard == getLive(LIVE_KEYS.DASHBOARD)
getBlocks == getLive(LIVE_KEYS.BLOCKS)
getTipHeight == getLive(LIVE_KEYS.TIP_HEIGHT)
getMempool == getLive(LIVE_KEYS.MEMPOOL)
getBlockReward == getLive(LIVE_KEYS.BLOCK_REWARD)
getLastUpdateTime == lastUpdateTime

isCacheFreshInclusive == now - lastUpdateTime <= FRESH_WINDOW
isCacheFresh == now - lastUpdateTime < FRESH_WINDOW

\* ------------------------------------------------------- statistics store
\* new Date(sec * 1000).toISOString().split('T')[0]: the UTC calendar day.
DateOf(sec) == sec \div DAY_SECONDS
\* Math.round(n / d) for d > 0: the nearest integer, halves upwards.
Round(n, d) == (2 * n + d) \div (2 * d)
\* Math.floor(Date.now() / 1000)
NowSec == BootSec + (now - StartTime) \div 1000
Today == DateOf(NowSec)

RECURSIVE SumOver(_, _)
SumOver(rows, field) ==
  IF rows = {} THEN 0
  ELSE CHOOSE sum \in
         UNION { { r[field] + SumOver(rest, field) : rest \in {rows \ {r}} } :
                 r \in {CHOOSE x \in rows : TRUE} } : TRUE

\* INSERT OR IGNORE INTO blocks_history: height is the primary key.
InsertOrReplaceHistory(history, block) ==
  { r \in history : r.height # block.height } \cup
    { [height |-> block.height, hash |-> block.id,
       timestamp |-> block.timestamp, tx_count |-> block.tx_count,
       size |-> block.size, date |-> DateOf(block.timestamp)] }
InsertOrIgnore(history, block) ==
  IF \E r \in history : r.height = block.height
  THEN history
  ELSE history \cup
         { [height |-> block.height, hash |-> block.id,
            timestamp |-> block.timestamp, tx_count |-> block.tx_count,
            size |-> block.size, date |-> DateOf(block.timestamp)] }

RECURSIVE insertMany(_, _)
insertMany(history, blocks) ==
  IF blocks = <<>> THEN history
  ELSE CHOOSE all \in
         { insertMany(h, rest) :
             h \in {InsertOrIgnore(history, Head(blocks))},
             rest \in {Tail(blocks)} } : TRUE

\* What can go wrong in the store while a run persists its blocks: nothing,
\* an error in the insert transaction (which is rolled back), or an error
\* in the daily rollup.
StoreFaults == {"none", "insert", "rollup"}

\* INSERT OR REPLACE INTO daily_stats: date is the primary key.
InsertOrIgnoreDaily(daily, row) ==
  IF \E r \in daily : r.date = row.date THEN daily ELSE daily \cup {row}
InsertOrReplace(daily, row) ==
  { r \in daily : r.date # row.date } \cup {row}

\* The aggregate over one date, then INSERT OR REPLACE INTO daily_stats;
\* an error is caught and ignored.
updateDailyStats(d, date, fault) ==
  LET rows == { r \in d.blocks_history : r.date = date }
      count == Cardinality(rows)
      total == SumOver(rows, "size")
      row == [date |-> date, tx_count |-> SumOver(rows, "tx_count"),
              block_count |-> count, total_size |-> total,
              avg_block_size |-> [num |-> total, den |-> count],
              updated_at |-> NowSec]
  IN IF ~d.open \/ count = 0 \/ fault = "rollup" THEN d
     ELSE [d EXCEPT !.daily_stats = InsertOrReplace(@, row)]

\* if (!db || !blocks || !blocks.length) return; then no store operation
\* is made and none can fail.
StoreUsed(d, blocks) == d.open /\ blocks # <<>>

saveBlocksToStats(d, blocks, fault) ==
  IF ~StoreUsed(d, blocks) \/ fault = "insert" THEN d
  ELSE updateDailyStats(
         [d EXCEPT !.blocks_history = insertMany(@, blocks)], Today, fault)

\* try { ... } catch (error) { /* Ignore errors */ }: whether an error of
\* the store escapes saveBlocksToStats.
ThrowsOnFault(fault) == fault # "none"
saveBlocksToStatsThrows(fault) == FALSE

\* initDatabase: open the store, then the retention sweep (keep 90 days).
RETENTION_DAYS == 90
initDatabaseNoSweep(d) == [d EXCEPT !.open = TRUE]
initDatabase(d) ==
  LET ninetyDaysAgo == NowSec - RETENTION_DAYS * DAY_SECONDS
  IN [open |-> TRUE,
      blocks_history |->
        { r \in d.blocks_history : ~(r.timestamp < ninetyDaysAgo) },
      daily_stats |->
        { r \in d.daily_stats : ~(r.date < DateOf(ninetyDaysAgo)) }]

\* SELECT * FROM daily_stats ORDER BY date DESC
RECURSIVE OrderByDateDesc(_)
OrderByDateDesc(rows) ==
  IF rows = {} THEN <<>>
  ELSE LET r == CHOOSE x \in rows : \A y \in rows : y.date <= x.date
       IN << r >> \o OrderByDateDesc(rows \ {r})

\* LIMIT ?: a negative limit is no limit.
Limit(rows, n) ==
  IF n < 0 \/ n >= Len(rows) THEN rows ELSE SubSeq(rows, 1, n)

\* Array.prototype.reverse
NoReverse(rows) == rows
Reverse(rows) == [i \in 1..Len(rows) |-> rows[Len(rows) + 1 - i]]

\* getDailyStats(days); `fails`: the query throws, which is caught.
getDailyStats(d, days, fails) ==
  IF ~d.open \/ fails THEN <<>>
  ELSE Reverse(Limit(OrderByDateDesc(d.daily_stats), days))

\* getDailyStats(days).map(s => ({ date: s.date, count: s.tx_count || 0 }))
getDailyTxCounts(d, days, fails) ==
  LET stats == getDailyStats(d, days, fails)
  IN [i \in 1..Len(stats) |->
        [date |-> stats[i].date, count |-> stats[i].tx_count]]

\* ... avgSize: Math.round(s.avg_block_size || 0)
getDailyBlockSizes(d, days, fails) ==
  LET stats == getDailyStats(d, days, fails)
  IN [i \in 1..Len(stats) |->
        [date |-> stats[i].date,
         avgSize |-> Round(stats[i].avg_block_size.num,
                           stats[i].avg_block_size.den)]]

\* --------------------------------------------------------- Update Manager
EmptyFn == [i \in {} |-> 0]
Pending == [st |-> "pending"]
Failed == [st |-> "fail"]
Ok(v) == [st |-> "ok", v |-> v]
\* A 200 answer whose body is no list (null): blocks.length throws.
Malformed == [st |-> "bad"]

\* The four promises handed to Promise.all.  Those of /mempool/recent and
\* /blockchain/getsupply carry a .catch and never reject.
CanReject(ep) == ep \in {"blocks", "tip"}

\* What a settled promise holds once Promise.all has resolved: the body of
\* the answer or, behind a .catch, the mark of the failure it replaced.
Settled(ep) ==
  CASE ep = "blocks" -> {Malformed} \cup { Ok(b) : b \in BlockLists }
    [] ep = "tip" -> { Ok(t) : t \in TipHeights }
    [] ep = "mempool" -> {Failed} \cup { Ok(m) : m \in Mempools }
    [] ep = "supply" -> {Failed} \cup { Ok(x) : x \in Supplies }

\* What the reward request can settle with.
RewardResponses == {Failed} \cup { Ok(t) : t \in TxLists }

\* The run's state right after the four requests of Promise.all are issued.
NewCycle ==
  [pc |-> "fanout", issuedAt |-> now,
   fetch |-> [ep \in Endpoints |-> Pending], reward |-> [st |-> "none"],
   store |-> "unused"]

InFlight == DOMAIN cycles
NoMicrotask == returned = "no"

\* if (updateManagerRunning) return;
DroppedNever == FALSE
Dropped == updateManagerRunning

\* updateManager() up to its first await, called by `caller`.
updateManager(caller) ==
  /\ Dropped \/ cycleCount < MaxCycles
  /\ IF Dropped
     THEN /\ hist' = [hist EXCEPT !.dropped = TRUE]
          /\ UNCHANGED << updateManagerRunning, cycleCount, cycles >>
     ELSE /\ updateManagerRunning' = TRUE
          /\ cycleCount' = cycleCount + 1
          /\ cycles' = (cycleCount + 1 :> NewCycle) @@ cycles
          /\ hist' = [hist EXCEPT !.dropped = FALSE]

\* .catch(() => []) and .catch(() => ({ total_amount_float: 0 }))
mempoolOrStale(f) == IF f.mempool.st = "ok" THEN f.mempool.v ELSE << "stale" >>
mempoolOf(f) == IF f.mempool.st = "ok" THEN f.mempool.v ELSE <<>>
supplyDataOf(f) ==
  IF f.supply.st = "ok" THEN f.supply.v ELSE [total_amount_float |-> 0]

avgBlockTimeOverCount(blocks) ==
  IF Len(blocks) > 1
  THEN Round(blocks[1].timestamp - blocks[Len(blocks)].timestamp, Len(blocks))
  ELSE DEFAULT_BLOCK_TIME
avgBlockTimeOf(blocks) ==
  IF Len(blocks) > 1
  THEN Round(blocks[1].timestamp - blocks[Len(blocks)].timestamp,
             Len(blocks) - 1)
  ELSE DEFAULT_BLOCK_TIME

\* blocks[0]?.difficulty || 0
oldestDifficultyOf(blocks) ==
  IF blocks = <<>> \/ "difficulty" \notin DOMAIN blocks[Len(blocks)] THEN 0
  ELSE blocks[Len(blocks)].difficulty
latestDifficultyOf(blocks) ==
  IF blocks = <<>> \/ "difficulty" \notin DOMAIN blocks[1] THEN 0
  ELSE blocks[1].difficulty

\* (latestDifficulty * Math.pow(2, 32)) / avgBlockTime, kept as a quotient:
\* coef * 2^pow2 / den.
hashrateOf(latestDifficulty, avgBlockTime) ==
  [coef |-> latestDifficulty, pow2 |-> 32, den |-> avgBlockTime]

SliceAll(s, from, to) == s
Slice(s, from, to) ==
  SubSeq(s, from + 1, IF Len(s) < to THEN Len(s) ELSE to)

RECURSIVE SumValues(_)
SumValues(vout) ==
  IF vout = <<>> THEN 0 ELSE Head(vout).value + SumValues(Tail(vout))

SnapshotFields ==
  {"tipHeight", "hashrate", "avgBlockTime", "mempoolCount", "difficulty",
   "supply", "blockReward", "blocks", "updatedAt"}

\* blockReward || 0
rewardOrZero(blockReward) ==
  IF Truthy(blockReward) THEN blockReward.value ELSE 0

\* A snapshot patched into the object published before: the reward field
\* stays the one an earlier run wrote.
dashboardDataPatched(c, f, blockReward) ==
  LET blocks == f.blocks.v
      avgBlockTime == avgBlockTimeOf(blocks)
      latestDifficulty == latestDifficultyOf(blocks)
      old == liveCache[LIVE_KEYS.DASHBOARD]
  IN [tipHeight |-> f.tip.v,
      hashrate |-> hashrateOf(latestDifficulty, avgBlockTime),
      avgBlockTime |-> avgBlockTime,
      mempoolCount |-> Len(mempoolOf(f)),
      difficulty |-> latestDifficulty,
      supply |-> supplyDataOf(f).total_amount_float,
      blockReward |-> IF old.present THEN old.value.blockReward
                      ELSE rewardOrZero(blockReward),
      blocks |-> Slice(blocks, 0, SLICE_END),
      updatedAt |-> now,
      by |-> [x \in SnapshotFields |->
                IF x = "blockReward" /\ old.present
                THEN old.value.by[x] ELSE c]]

\* const dashboardData = { ... }; `by` records which run wrote each field.
dashboardDataOf(c, f, blockReward) ==
  LET blocks == f.blocks.v
      avgBlockTime == avgBlockTimeOf(blocks)
      latestDifficulty == latestDifficultyOf(blocks)
  IN [tipHeight |-> f.tip.v,
      hashrate |-> hashrateOf(latestDifficulty, avgBlockTime),
      avgBlockTime |-> avgBlockTime,
      mempoolCount |-> Len(mempoolOf(f)),
      difficulty |-> latestDifficulty,
      supply |-> supplyDataOf(f).total_amount_float,
      blockReward |-> rewardOrZero(blockReward),
      blocks |-> Slice(blocks, 0, SLICE_END),
      updatedAt |-> now,
      by |-> [x \in SnapshotFields |-> c]]

\* } finally { updateManagerRunning = false; }
ReleaseOnSuccessOnly(outcome) ==
  IF outcome = "published" THEN FALSE ELSE updateManagerRunning
FlagAfterExit(outcome) == FALSE

\* History of the run that ends now, for the properties below.  prevReward
\* is the reward the run before it published (0: it published none).
RunRecord(c, cyc, outcome, reward) ==
  IF outcome = "published"
  THEN [id |-> c, outcome |-> outcome,
        fetch |-> [ep \in Endpoints |-> cyc.fetch[ep].st],
        reward |-> cyc.reward.st,
        rewardTxs |-> IF "v" \in DOMAIN cyc.reward THEN cyc.reward.v ELSE <<>>,
        blockReward |-> reward,
        prevOutcome |-> hist.lastRun.outcome,
        store |-> cyc.store,
        prevReward |-> IF hist.lastRun.id = c - 1
                          /\ hist.lastRun.outcome = "published"
                       THEN hist.lastRun.blockReward ELSE 0,
        knownBefore |-> hist.everKnown]
  ELSE [id |-> c, outcome |-> outcome,
        cause |-> IF "fail" \in { cyc.fetch[ep].st : ep \in {"blocks", "tip"} }
                  THEN "rejected"
                  ELSE IF cyc.fetch.blocks.st = "bad" THEN "threw"
                  ELSE "other"]

\* } catch (error) { console.error(...) }: the error is logged and not
\* thrown again, so the promise of updateManager() resolves on every path.
RethrowInCatch(outcome) ==
  IF outcome = "aborted" THEN "rejected" ELSE "settled"
PromiseOf(outcome) == "settled"

\* The end of a run: the finally block, then the promise updateManager()
\* returned resolves and its awaiter becomes runnable.  Requests of the
\* run that have not settled stay outstanding.
Release(c, cyc, outcome, reward) ==
  /\ updateManagerRunning' = FlagAfterExit(outcome)
  /\ cycles' = [i \in DOMAIN cycles \ {c} |-> cycles[i]]
  /\ stragglers' =
       LET n == Cardinality({ e \in Endpoints : cyc.fetch[e].st = "pending" })
       IN IF n = 0 THEN stragglers
          ELSE stragglers \cup
                 { [cycle |-> c, n |-> n, issuedAt |-> cyc.issuedAt] }
  /\ awaiting' = awaiting \ {c}
  /\ returned' = IF c \in awaiting THEN PromiseOf(outcome) ELSE returned
  /\ hist' = [hist EXCEPT
       !.dropped = FALSE,
       !.lastRun = RunRecord(c, cyc, outcome, reward),
       !.everKnown = @ \/ (outcome = "published" /\ reward # 0),
       !.lastPublishAt = IF outcome = "published" THEN now ELSE @,
       !.lastPublished = IF outcome = "published" THEN c ELSE @]

\* } catch (error) { console.error(...) } finally { ... }
AbortRunStamped(c, cyc) ==
  /\ lastUpdateTime' = now
  /\ Release(c, cyc, "aborted", 0)
  /\ UNCHANGED << now, mainpc, updateInterval, timerCount, ticksDue,
                  liveCache, immutableCache, db, cycleCount, requests,
                  upstream, handlers >>
AbortRun(c, cyc) ==
  /\ Release(c, cyc, "aborted", 0)
  /\ UNCHANGED << now, mainpc, lastUpdateTime, updateInterval, timerCount,
                  ticksDue, liveCache, immutableCache, db, cycleCount, requests,
                  upstream, handlers >>

\* From `const dashboardData` to the end of the try block.
Publish(c, cyc, blockReward, live, imm) ==
  LET f == cyc.fetch
      dashboardData == dashboardDataOf(c, f, blockReward)
  IN /\ \E c1 \in { setLive(live, LIVE_KEYS.DASHBOARD, dashboardData) } :
          \E c2 \in { setLive(c1, LIVE_KEYS.BLOCKS, f.blocks.v) } :
            \E c3 \in { setLive(c2, LIVE_KEYS.TIP_HEIGHT, f.tip.v) } :
              \E c4 \in { setLive(c3, LIVE_KEYS.MEMPOOL, mempoolOf(f)) } :
                liveCache' =
                  IF Truthy(blockReward)
                  THEN setLive(c4, LIVE_KEYS.BLOCK_REWARD, blockReward.value)
                  ELSE c4
     /\ lastUpdateTime' = now
     /\ immutableCache' = imm
     /\ \E fault \in StoreFaults :
          /\ fault # "none" => StoreUsed(db, f.blocks.v)
          /\ db' = saveBlocksToStats(db, f.blocks.v, fault)
          /\ LET run == [cyc EXCEPT !.store =
                          IF StoreUsed(db, f.blocks.v) THEN fault
                          ELSE "unused"]
             IN IF saveBlocksToStatsThrows(fault)
                THEN Release(c, run, "aborted", 0)
                ELSE Release(c, run, "published", dashboardData.blockReward)
     /\ UNCHANGED << now, mainpc, updateInterval, timerCount, ticksDue,
                     cycleCount, requests, upstream, handlers >>

\* Promise.all has resolved: derive, then the reward sub-step or the publish.
Continue(c, cyc) ==
  IF cyc.fetch.blocks.st = "bad"
  THEN AbortRun(c, cyc)
  ELSE LET blockReward == getLive(LIVE_KEYS.BLOCK_REWARD)
           live == CacheTouch(liveCache, LIVE_TTL, LIVE_KEYS.BLOCK_REWARD)
       IN IF ~Truthy(blockReward) /\ cyc.fetch.blocks.v # <<>>
          THEN /\ cycles' = [cycles EXCEPT ![c] =
                    [cyc EXCEPT !.pc = "reward", !.issuedAt = now,
                                !.reward = Pending]]
               /\ liveCache' = live
               /\ UNCHANGED << now, mainpc, updateManagerRunning,
                    lastUpdateTime, updateInterval, timerCount, ticksDue,
                    immutableCache, db, cycleCount, stragglers,
                    awaiting, returned, hist, requests, upstream, handlers >>
          ELSE Publish(c, cyc, blockReward, live, immutableCache)

\* await Promise.all([...]) resumes once every one of the four has settled.
FanOutRequiredResolved(cyc) ==
  \A e \in {"blocks", "tip"} : cyc.fetch[e].st # "pending"
FanOutResolved(cyc) == \A e \in Endpoints : cyc.fetch[e].st # "pending"

\* One request of the fan-out settles; `rejected`: its promise rejects.
SettleFetch(c, ep, rejected) ==
  /\ NoMicrotask
  /\ c \in InFlight
  /\ cycles[c].pc = "fanout"
  /\ cycles[c].fetch[ep].st = "pending"
  /\ rejected => CanReject(ep)
  /\ LET cyc == [cycles[c] EXCEPT !.fetch[ep] =
                   IF rejected THEN Failed ELSE [st |-> "settled"]]
     IN IF rejected
        THEN AbortRun(c, cyc)
        ELSE IF ~FanOutResolved(cyc)
        THEN /\ cycles' = [cycles EXCEPT ![c] = cyc]
             /\ UNCHANGED << now, mainpc, updateManagerRunning,
                  lastUpdateTime, updateInterval, timerCount, ticksDue,
                  liveCache, immutableCache, db, cycleCount, stragglers,
                  awaiting, returned, hist, requests, upstream, handlers >>
        ELSE \E b \in Settled("blocks"), t \in Settled("tip"),
                m \in Settled("mempool"), s \in Settled("supply") :
               Continue(c, [cyc EXCEPT !.fetch =
                 [blocks |-> b, tip |-> t, mempool |-> m, supply |-> s]])

\* The reward request (`/block/${blocks[0].id}/txs/0`) settles.
SettleReward(c, r) ==
  /\ NoMicrotask
  /\ c \in InFlight
  /\ cycles[c].pc = "reward"
  /\ r \in RewardResponses
  /\ LET derived == /\ r.st = "ok"
                    /\ r.v # <<>>
                    /\ r.v[1].vin[1].is_coinbase
         blockReward == IF derived THEN Value(SumValues(r.v[1].vout))
                        ELSE Undefined
         imm == IF derived
                THEN setImmutable(immutableCache, TxKey(r.v[1].txid), r.v[1])
                ELSE immutableCache
         cyc == [cycles[c] EXCEPT !.reward =
                   [st |-> IF r.st = "fail" THEN "fail"
                           ELSE IF derived THEN "derived" ELSE "underivable",
                    v |-> IF derived THEN r.v ELSE <<>>]]
     IN Publish(c, cyc, blockReward, liveCache, imm)

\* A request of a run that already ended settles: nobody awaits it.
SettleStraggler(s) ==
  /\ NoMicrotask
  /\ s \in stragglers
  /\ stragglers' = (stragglers \ {s}) \cup
       (IF s.n = 1 THEN {} ELSE { [s EXCEPT !.n = @ - 1] })
  /\ UNCHANGED << now, mainpc, updateManagerRunning, lastUpdateTime,
       updateInterval, timerCount, ticksDue, liveCache, immutableCache, db,
       cycleCount, cycles, awaiting, returned, hist, requests, upstream,
       handlers >>

\* ------------------------------------------------- start, stop, the timer
\* server.js: cache.initDatabase(); `ok` is whether the store could be opened.
InitDatabase(ok) ==
  /\ mainpc = "init"
  /\ mainpc' = "start"
  /\ db' = IF ok THEN initDatabase(db) ELSE db
  /\ UNCHANGED << now, updateManagerRunning, lastUpdateTime, updateInterval,
       timerCount, ticksDue, liveCache, immutableCache, cycleCount, cycles,
       stragglers, awaiting, returned, hist, requests, upstream, handlers >>

\* if (updateInterval) return;
AlreadyStartedNever == FALSE
AlreadyStarted == updateInterval

\* startUpdateManager() from its guard to setInterval(...).
StartTimer ==
  /\ NoMicrotask
  /\ IF AlreadyStarted
     THEN UNCHANGED << updateManagerRunning, cycleCount, cycles, hist,
                       updateInterval, timerCount >>
     ELSE /\ updateManager("startup")
          /\ updateInterval' = TRUE
          /\ timerCount' = timerCount + 1
  /\ UNCHANGED << now, lastUpdateTime, ticksDue, liveCache, immutableCache,
       db, stragglers, awaiting, returned, requests, upstream, handlers >>

\* server.js: cache.startUpdateManager(), once, right after initDatabase.
startUpdateManager ==
  /\ mainpc = "start"
  /\ mainpc' = "serving"
  /\ StartTimer

\* clearInterval(updateInterval): the callbacks still due once the timer is
\* cleared.  A callback of the cleared timer that was due does not run.
clearIntervalLate(due) == due
clearInterval(due) == IF due > 0 THEN due - 1 ELSE 0

stopUpdateManager ==
  /\ mainpc = "serving"
  /\ NoMicrotask
  /\ IF updateInterval
     THEN /\ updateInterval' = FALSE
          /\ timerCount' = timerCount - 1
          /\ ticksDue' = clearInterval(ticksDue)
          /\ hist' = [hist EXCEPT !.inFlightAtStop = InFlight]
     ELSE UNCHANGED << updateInterval, timerCount, ticksDue, hist >>
  /\ UNCHANGED << now, mainpc, updateManagerRunning, lastUpdateTime,
       liveCache, immutableCache, db, cycleCount, cycles, stragglers, awaiting,
       returned, requests, upstream, handlers >>

\* UPDATE_INTERVAL passes.  Every timer callback that was due has run, and
\* axios gives up on a request after AXIOS_TIMEOUT.
Advance ==
  /\ mainpc = "serving"
  /\ NoMicrotask
  /\ ticksDue = 0
  /\ now < StartTime + MaxTime * UPDATE_INTERVAL
  /\ \A c \in InFlight :
       cycles[c].issuedAt + AXIOS_TIMEOUT >= now + UPDATE_INTERVAL
  /\ \A s \in stragglers :
       s.issuedAt + AXIOS_TIMEOUT >= now + UPDATE_INTERVAL
  /\ now' = now + UPDATE_INTERVAL
  /\ ticksDue' = timerCount
  /\ UNCHANGED << mainpc, updateManagerRunning, lastUpdateTime,
       updateInterval, timerCount, liveCache, immutableCache, db,
       cycleCount, cycles, stragglers, awaiting, returned, hist, requests,
       upstream, handlers >>

\* setInterval(updateManager, UPDATE_INTERVAL) fires.
TimerFire ==
  /\ NoMicrotask
  /\ ticksDue > 0
  /\ ticksDue' = ticksDue - 1
  /\ updateManager("timer")
  /\ UNCHANGED << now, mainpc, lastUpdateTime, updateInterval, timerCount,
       liveCache, immutableCache, db, stragglers, awaiting, returned, requests,
       upstream, handlers >>

\* ------------------------------------------------- dashboard handlers
\* app.get('/') and app.get('/api/dashboard') finding the cache empty:
\* if (!dashboardData) { await cache.updateManager(); ... }
ForceUpdate ==
  /\ mainpc = "serving"
  /\ NoMicrotask
  /\ ~getDashboard.present
  /\ updateManager("handler")
  /\ awaiting' = IF Dropped THEN awaiting ELSE awaiting \cup {cycleCount + 1}
  /\ returned' = IF Dropped THEN "dropped" ELSE returned
  /\ liveCache' = CacheTouch(liveCache, LIVE_TTL, LIVE_KEYS.DASHBOARD)
  /\ UNCHANGED << now, mainpc, lastUpdateTime, updateInterval, timerCount,
       ticksDue, immutableCache, db, stragglers, requests, upstream >>

HandlerRequest == ForceUpdate /\ UNCHANGED handlers

\* The await has returned: dashboardData = cache.getDashboard(); respond.
\* Had the promise rejected, control would go to the handler's catch.
Reread ==
  /\ returned # "no"
  /\ returned' = "no"
  /\ liveCache' = IF returned = "rejected" THEN liveCache
                  ELSE CacheTouch(liveCache, LIVE_TTL, LIVE_KEYS.DASHBOARD)
  /\ UNCHANGED << now, mainpc, updateManagerRunning, lastUpdateTime,
       updateInterval, timerCount, ticksDue, immutableCache, db,
       cycleCount, cycles, stragglers, awaiting, hist, requests, upstream >>

HandlerContinue == Reread /\ UNCHANGED handlers

\* The two handlers from the request to the response.  A request is of
\* one of the two routes; it stands before its arrival ("idle"), at the
\* await of updateManager(), at one of the two awaits of the page's direct
\* fetch ("blocks", "tip"), or has answered ("done").
HandlerKinds == {"page", "api"}
NotArrived == [pc |-> "idle"]
NoHandlers == [h \in 1..MaxHandlers |-> NotArrived]

\* What a handler answers: the snapshot of the cache, the data of the
\* page's direct fetch, or a failure.
FromCache(dashboardData) ==
  [status |-> "ok", from |-> "cache", data |-> dashboardData]
FromDirectFetch(dashboardData) ==
  [status |-> "ok", from |-> "direct", data |-> dashboardData]
\* return res.status(503).json({ error: 'Data not ready, please wait...' })
NotReady == [status |-> "503", from |-> "none"]
\* catch (error): res.render('error', ...) and res.status(500).json(...)
Caught(kind) ==
  [status |-> IF kind = "page" THEN "error page" ELSE "500", from |-> "none"]

Answered(h, response) ==
  [pc |-> "done", kind |-> h.kind, run |-> h.run, calls |-> h.calls,
   response |-> response]

\* The dashboardData of the emergency fallback of app.get('/').
emergencyData(blocks, tipHeight) ==
  [tipHeight |-> tipHeight, hashrate |-> 0,
   avgBlockTime |-> DEFAULT_BLOCK_TIME, mempoolCount |-> 0,
   difficulty |-> latestDifficultyOf(blocks), supply |-> 0,
   blockReward |-> 0, blocks |-> Slice(blocks, 0, SLICE_END)]

\* A request of kind `kind` arrives: let dashboardData = cache.getDashboard()
\* and, the snapshot being there, the response; else up to the await.
DashboardRequest(h, kind) ==
  /\ handlers[h].pc = "idle"
  /\ \A g \in 1..(h - 1) : handlers[g].pc # "idle"
  /\ IF getDashboard.present
     THEN /\ mainpc = "serving"
          /\ NoMicrotask
          /\ liveCache' = CacheTouch(liveCache, LIVE_TTL, LIVE_KEYS.DASHBOARD)
          /\ handlers' = [handlers EXCEPT ![h] =
               Answered([kind |-> kind, run |-> 0, calls |-> 0],
                        FromCache(getDashboard.value))]
          /\ UNCHANGED << now, mainpc, updateManagerRunning, lastUpdateTime,
               updateInterval, timerCount, ticksDue, immutableCache, db,
               cycleCount, cycles, stragglers, awaiting, returned, hist,
               requests, upstream >>
     ELSE /\ ForceUpdate
          /\ handlers' = [handlers EXCEPT ![h] =
               [pc |-> "awaiting", kind |-> kind,
                run |-> IF Dropped THEN 0 ELSE cycleCount + 1,
                calls |-> 1]]

\* The await of request h returns: of a dropped call at once, of a call
\* that started a run when that run has ended.
HandlerReread(h) ==
  /\ handlers[h].pc = "awaiting"
  /\ handlers[h].run = IF returned = "dropped" THEN 0 ELSE hist.lastRun.id
  /\ Reread
  /\ LET dashboardData == getDashboard
     IN handlers' = [handlers EXCEPT ![h] =
          IF returned = "rejected" THEN Answered(@, Caught(@.kind))
          ELSE IF dashboardData.present
          THEN Answered(@, FromCache(dashboardData.value))
          ELSE IF @.kind = "api" THEN Answered(@, NotReady)
          ELSE [pc |-> "blocks", kind |-> @.kind, run |-> @.run,
                calls |-> @.calls]]

\* const blocks = await cache.fetchFromElectrs('/blocks');
\* const tipHeight = await cache.fetchFromElectrs('/blocks/tip/height');
\* The request of ep, the one h waits for, settles with r.  A body of
\* /blocks that is no list makes blocks[0] throw once both have resolved.
FallbackSettle(h, ep, r) ==
  /\ NoMicrotask
  /\ handlers[h].pc = ep
  /\ handlers' = [handlers EXCEPT ![h] =
       IF r.st = "fail" THEN Answered(@, Caught(@.kind))
       ELSE IF @.pc = "blocks"
       THEN [pc |-> "tip", kind |-> @.kind, run |-> @.run,
             calls |-> @.calls, blocks |-> r]
       ELSE IF @.blocks.st = "bad" THEN Answered(@, Caught(@.kind))
       ELSE Answered(@, FromDirectFetch(emergencyData(@.blocks.v, r.v)))]
  /\ UNCHANGED << now, mainpc, updateManagerRunning, lastUpdateTime,
       updateInterval, timerCount, ticksDue, liveCache, immutableCache, db,
       cycleCount, cycles, stragglers, awaiting, returned, hist, requests,
       upstream >>

\* ------------------------------------------------------- specification
NoRun == [id |-> 0, outcome |-> "none"]

Init ==
  /\ now = StartTime
  /\ mainpc = "init"
  /\ updateManagerRunning = FALSE
  /\ lastUpdateTime = 0
  /\ updateInterval = FALSE
  /\ timerCount = 0
  /\ ticksDue = 0
  /\ liveCache = [k \in LiveKeySet |-> NoEntry]
  /\ immutableCache = [k \in ImmutableKeySet |-> NoEntry]
  /\ db = [open |-> FALSE, blocks_history |-> {}, daily_stats |-> {}]
  /\ cycleCount = 0
  /\ cycles = EmptyFn
  /\ stragglers = {}
  /\ awaiting = {}
  /\ returned = "no"
  /\ requests = NoRequests
  /\ upstream = [confirmed |-> FALSE]
  /\ handlers = NoHandlers
  /\ hist = [dropped |-> FALSE, lastRun |-> NoRun,
             everKnown |-> FALSE, lastPublishAt |-> -1, lastPublished |-> 0,
             inFlightAtStop |-> {}]

Settle ==
  \/ \E c \in InFlight, ep \in Endpoints :
       \E rejected \in BOOLEAN : SettleFetch(c, ep, rejected)
  \/ \E c \in InFlight : \E r \in RewardResponses : SettleReward(c, r)
  \/ \E s \in stragglers : SettleStraggler(s)

Resume == HandlerContinue

Next ==
  \/ \E ok \in BOOLEAN : InitDatabase(ok)
  \/ startUpdateManager
  \/ stopUpdateManager
  \/ Advance
  \/ TimerFire
  \/ HandlerRequest
  \/ Resume
  \/ Settle

Spec == Init /\ [][Next]_vars

\* Every upstream request eventually resolves or rejects, and the event
\* loop runs every continuation that is ready.
LiveNext == Next /\ now' <= StartTime + LiveMaxTime * UPDATE_INTERVAL
LiveSpec ==
  Init /\ [][LiveNext]_vars /\ SF_vars(Settle) /\ WF_vars(Resume)

\* Recovery: from some point on the requests for /blocks and
\* /blocks/tip/height succeed with a well-formed answer.  Here a run aborts
\* only before the last clock step and only if the bounds leave room for a
\* run after it.  The timer callbacks run when they are due, and the clock
\* goes on.
RecoverLimits ==
  /\ now' <= StartTime + RecoverMaxTime * UPDATE_INTERVAL
  /\ hist'.lastRun # hist.lastRun /\ hist'.lastRun.outcome = "aborted" =>
       /\ hist'.lastRun.id < MaxCycles
       /\ now < StartTime + RecoverMaxTime * UPDATE_INTERVAL
RecoverNext == Next /\ RecoverLimits
RecoverSpec ==
  /\ Init
  /\ [][RecoverNext]_vars
  /\ SF_vars(Settle /\ RecoverLimits)
  /\ WF_vars(Resume)
  /\ SF_vars(Advance /\ RecoverLimits)
  /\ SF_vars(TimerFire)

\* The exported startUpdateManager() called again by the process that is
\* serving, at any moment and any number of times, between the other steps.
StartAgain ==
  /\ mainpc = "serving"
  /\ UNCHANGED mainpc
  /\ StartTimer

StartNext ==
  \/ \E ok \in BOOLEAN : InitDatabase(ok)
  \/ startUpdateManager
  \/ StartAgain
  \/ stopUpdateManager
  \/ Advance /\ now < StartTime + StartMaxTime * UPDATE_INTERVAL
  \/ TimerFire
  \/ Settle

StartSpec == Init /\ [][StartNext]_vars

\* The two dashboard handlers from request to response, next to the runs
\* the start-up and the handlers themselves start.
HandlerNext ==
  \/ \E ok \in BOOLEAN : InitDatabase(ok)
  \/ startUpdateManager
  \/ Settle
  \/ \E h \in 1..MaxHandlers, kind \in HandlerKinds : DashboardRequest(h, kind)
  \/ \E h \in 1..MaxHandlers : HandlerReread(h)
  \/ \E h \in 1..MaxHandlers, ep \in {"blocks", "tip"} :
       \E r \in {Failed} \cup Settled(ep) : FallbackSettle(h, ep, r)

HandlerSpec == Init /\ [][HandlerNext]_vars

\* ------------------------------------------- the two tiers on their own
\* The exported getLive, setLive, getImmutable and setImmutable called in
\* any order on one tier, with any time between the calls.  The tier starts
\* empty or one entry short of full: keys 2..max set in that order when the
\* module was loaded, keys 1 and max + 1 never set.
Tiers == {"live", "immutable"}
TierMax(t) == IF t = "live" THEN LIVE_MAX ELSE IMMUTABLE_MAX
CacheKeys(max) == 1..(max + 1)
ProbeKeys(max) == {1, 2, max + 1}

Prefill(max, filled) ==
  [k \in CacheKeys(max) |->
     IF filled /\ k >= 2 /\ k <= max
     THEN [present |-> TRUE, value |-> 0, start |-> StartTime,
           used |-> max + 1 - k]
     ELSE NoEntry]

NeverSet == [at |-> -1, value |-> 0]

\* The variables the calls on the tiers leave alone.
cacheFrame ==
  << mainpc, updateManagerRunning, lastUpdateTime, updateInterval,
     timerCount, ticksDue, db, cycleCount, cycles, stragglers, awaiting,
     returned, requests, upstream, handlers >>

\* The variables a handler's fetch leaves alone.
cacheFrameOfFetch ==
  << mainpc, updateManagerRunning, lastUpdateTime, updateInterval,
     timerCount, ticksDue, db, cycleCount, cycles, stragglers, awaiting,
     returned, handlers >>

CacheInit ==
  /\ now = StartTime
  /\ mainpc = "init"
  /\ updateManagerRunning = FALSE
  /\ lastUpdateTime = 0
  /\ updateInterval = FALSE
  /\ timerCount = 0
  /\ ticksDue = 0
  /\ db = [open |-> FALSE, blocks_history |-> {}, daily_stats |-> {}]
  /\ cycleCount = 0
  /\ cycles = EmptyFn
  /\ stragglers = {}
  /\ awaiting = {}
  /\ returned = "no"
  /\ requests = NoRequests
  /\ upstream = [confirmed |-> FALSE]
  /\ handlers = NoHandlers
  /\ \E t \in Tiers, filled \in BOOLEAN :
       /\ liveCache = IF t = "live" THEN Prefill(LIVE_MAX, filled)
                      ELSE [k \in LiveKeySet |-> NoEntry]
       /\ immutableCache =
            IF t = "immutable" THEN Prefill(IMMUTABLE_MAX, filled)
            ELSE [k \in ImmutableKeySet |-> NoEntry]
       /\ hist = [tier |-> t, filled |-> filled, calls |-> 0,
                  sets |-> IF filled THEN TierMax(t) - 1 ELSE 0,
                  lastSet |-> [k \in ProbeKeys(TierMax(t)) |-> NeverSet],
                  lastUse |-> [k \in ProbeKeys(TierMax(t)) |-> 0],
                  last |-> [kind |-> "none", key |-> 0]]

\* The history after call number hist.calls + 1 has set `key`.
AfterSet(key) ==
  [hist EXCEPT !.calls = @ + 1, !.sets = @ + 1,
               !.lastSet[key] = [at |-> now, value |-> hist.calls + 1],
               !.lastUse[key] = hist.calls + 1,
               !.last = [kind |-> "set", key |-> key]]

\* The history after call number hist.calls + 1 has got `key` and found it
\* (hit) or not.
AfterGet(key, hit) ==
  [hist EXCEPT !.calls = @ + 1,
               !.lastUse[key] = IF hit THEN hist.calls + 1 ELSE @,
               !.last = [kind |-> "get", key |-> key]]

\* setLive(key, value): the value is the number of the call.
CallSetLive(key) ==
  /\ hist.tier = "live"
  /\ hist.calls < MaxCalls
  /\ liveCache' = setLive(liveCache, key, hist.calls + 1)
  /\ hist' = AfterSet(key)
  /\ UNCHANGED << now, immutableCache, cacheFrame >>

\* getLive(key)
CallGetLive(key) ==
  /\ hist.tier = "live"
  /\ hist.calls < MaxCalls
  /\ liveCache' = CacheTouch(liveCache, LIVE_TTL, key)
  /\ hist' = AfterGet(key, getLive(key).present)
  /\ UNCHANGED << now, immutableCache, cacheFrame >>

\* setImmutable(key, value)
CallSetImmutable(key) ==
  /\ hist.tier = "immutable"
  /\ hist.calls < MaxCalls
  /\ immutableCache' = setImmutable(immutableCache, key, hist.calls + 1)
  /\ hist' = AfterSet(key)
  /\ UNCHANGED << now, liveCache, cacheFrame >>

\* getImmutable(key)
CallGetImmutable(key) ==
  /\ hist.tier = "immutable"
  /\ hist.calls < MaxCalls
  /\ immutableCache' = CacheTouch(immutableCache, IMMUTABLE_TTL, key)
  /\ hist' = AfterGet(key, getImmutable(key).present)
  /\ UNCHANGED << now, liveCache, cacheFrame >>

\* Time passes between two calls: a refresh interval, or the ttl of the
\* tier.
TierTtl(t) == IF t = "live" THEN LIVE_TTL ELSE IMMUTABLE_TTL
Elapse(dt) ==
  /\ hist.calls < MaxCalls
  /\ dt \in {UPDATE_INTERVAL, TierTtl(hist.tier)}
  /\ now' = now + dt
  /\ hist' = [hist EXCEPT !.calls = @ + 1,
                          !.last = [kind |-> "wait", key |-> 0]]
  /\ UNCHANGED << liveCache, immutableCache, cacheFrame >>

CacheNext ==
  \/ \E k \in ProbeKeys(LIVE_MAX) : CallSetLive(k)
  \/ \E k \in ProbeKeys(LIVE_MAX) : CallGetLive(k)
  \/ \E k \in ProbeKeys(IMMUTABLE_MAX) : CallSetImmutable(k)
  \/ \E k \in ProbeKeys(IMMUTABLE_MAX) : CallGetImmutable(k)
  \/ \E dt \in {UPDATE_INTERVAL, LIVE_TTL, IMMUTABLE_TTL} : Elapse(dt)

CacheSpec == CacheInit /\ [][CacheNext]_vars

\* --------------------------------------- handlers fetching from upstream
\* What the indexing service answers to a handler.  A transaction is
\* served from the moment it is in the mempool, with status.confirmed
\* false until a block holds it.
UpstreamData(e) ==
  CASE e = TxById ->
         [txid |-> "pt", status |-> [confirmed |-> upstream.confirmed]]
    [] e = BlockTxs -> << CoinbaseTx >>
    [] e = TipHeightPath -> SLICE_END + 1
    [] e = CoinbaseById -> CoinbaseTx
    [] e = BlocksPath -> RecentBlocks
    [] e = MempoolRecentPath -> << "m1", "m2" >>
    [] e = AddressPath -> [address |-> "addr", tx_count |-> 1]
    [] e = BlockHeightPath -> "hash"

\* endpoint.match(/^\/(tx|block)\/[a-f0-9]{64}/)
MatchesAnyPath(e) == TRUE
IsImmutableEndpoint(e) == e.head \in {"tx", "block"} /\ e.hex >= 64

\* fetchFromElectrs(endpoint) of server.js up to its await: the answer
\* cached under the endpoint is returned, or a request is sent upstream.
HandlerFetch(e) ==
  /\ hist.fetches < MaxFetches
  /\ LET cached == getImmutable(e)
     IN /\ immutableCache' = CacheTouch(immutableCache, IMMUTABLE_TTL, e)
        /\ requests' = IF cached.present THEN requests
                       ELSE [requests EXCEPT ![e] = @ + 1]
        /\ hist' = [hist EXCEPT
             !.fetches = @ + 1,
             !.last = IF cached.present
                      THEN [kind |-> "hit", endpoint |-> e,
                            returns |-> cached.value]
                      ELSE [kind |-> "miss", endpoint |-> e, returns |-> 0]]
  /\ UNCHANGED << now, liveCache, upstream, cacheFrameOfFetch >>

\* The request resolves: the answer is stored under the endpoint when the
\* endpoint matches, and returned.
FetchResolve(e) ==
  /\ requests[e] > 0
  /\ requests' = [requests EXCEPT ![e] = @ - 1]
  /\ LET data == UpstreamData(e)
     IN /\ immutableCache' = IF IsImmutableEndpoint(e)
                             THEN setImmutable(immutableCache, e, data)
                             ELSE immutableCache
        /\ hist' = [hist EXCEPT
             !.written[e] = IF IsImmutableEndpoint(e)
                            THEN @ \cup {data} ELSE @,
             !.last = [kind |-> "resolved", endpoint |-> e,
                       returns |-> data]]
  /\ UNCHANGED << now, liveCache, upstream, cacheFrameOfFetch >>

\* The request fails or times out: cache.fetchFromElectrs throws again and
\* the await in the handler's fetch throws.
FetchReject(e) ==
  /\ requests[e] > 0
  /\ requests' = [requests EXCEPT ![e] = @ - 1]
  /\ hist' = [hist EXCEPT
       !.last = [kind |-> "threw", endpoint |-> e, returns |-> 0]]
  /\ UNCHANGED << now, liveCache, immutableCache, upstream,
                  cacheFrameOfFetch >>

\* A block is mined that holds the transaction.
Confirm ==
  /\ ~upstream.confirmed
  /\ upstream' = [upstream EXCEPT !.confirmed = TRUE]
  /\ hist' = [hist EXCEPT
       !.last = [kind |-> "mined", endpoint |-> TxById, returns |-> 0]]
  /\ UNCHANGED << now, liveCache, immutableCache, requests,
                  cacheFrameOfFetch >>

\* Time passes while no request is out: a refresh interval, or the ttl of
\* the immutable tier.
FetchWait(dt) ==
  /\ requests = NoRequests
  /\ hist.waits < MaxWaits
  /\ now' = now + dt
  /\ hist' = [hist EXCEPT
       !.waits = @ + 1,
       !.last = [kind |-> "wait", endpoint |-> TxById, returns |-> 0]]
  /\ UNCHANGED << liveCache, immutableCache, requests, upstream,
                  cacheFrameOfFetch >>

FetchInit ==
  /\ now = StartTime
  /\ mainpc = "serving"
  /\ updateManagerRunning = FALSE
  /\ lastUpdateTime = 0
  /\ updateInterval = FALSE
  /\ timerCount = 0
  /\ ticksDue = 0
  /\ liveCache = [k \in LiveKeySet |-> NoEntry]
  /\ immutableCache = [k \in FetchEndpoints |-> NoEntry]
  /\ db = [open |-> FALSE, blocks_history |-> {}, daily_stats |-> {}]
  /\ cycleCount = 0
  /\ cycles = EmptyFn
  /\ stragglers = {}
  /\ awaiting = {}
  /\ returned = "no"
  /\ requests = NoRequests
  /\ upstream = [confirmed |-> FALSE]
  /\ handlers = NoHandlers
  /\ hist = [fetches |-> 0, waits |-> 0,
             written |-> [e \in FetchEndpoints |-> {}],
             last |-> [kind |-> "none", endpoint |-> TxById, returns |-> 0]]

FetchNext ==
  \/ \E e \in FetchEndpoints : HandlerFetch(e)
  \/ \E e \in FetchEndpoints : FetchResolve(e)
  \/ \E e \in FetchEndpoints : FetchReject(e)
  \/ Confirm
  \/ \E dt \in {UPDATE_INTERVAL, IMMUTABLE_TTL} : FetchWait(dt)

FetchSpec == FetchInit /\ [][FetchNext]_vars

\* ------------------------------- handlers next to the Update Manager
\* The handlers' fetchFromElectrs called for any of the paths above while
\* the first run of the Update Manager is made: both write the immutable
\* cache.
ServeInit ==
  /\ now = StartTime
  /\ mainpc = "init"
  /\ updateManagerRunning = FALSE
  /\ lastUpdateTime = 0
  /\ updateInterval = FALSE
  /\ timerCount = 0
  /\ ticksDue = 0
  /\ liveCache = [k \in LiveKeySet |-> NoEntry]
  /\ immutableCache = [k \in ImmutableKeySet \cup ServeEndpoints |-> NoEntry]
  /\ db = [open |-> FALSE, blocks_history |-> {}, daily_stats |-> {}]
  /\ cycleCount = 0
  /\ cycles = EmptyFn
  /\ stragglers = {}
  /\ awaiting = {}
  /\ returned = "no"
  /\ requests = [e \in ServeEndpoints |-> 0]
  /\ upstream = [confirmed |-> TRUE]
  /\ handlers = NoHandlers
  /\ hist = [dropped |-> FALSE, lastRun |-> NoRun,
             everKnown |-> FALSE, lastPublishAt |-> -1, lastPublished |-> 0,
             inFlightAtStop |-> {},
             fetches |-> 0, waits |-> 0,
             written |-> [e \in ServeEndpoints |-> {}],
             last |-> [kind |-> "none", endpoint |-> BlocksPath,
                       returns |-> 0]]

ServeNext ==
  \/ \E ok \in BOOLEAN : InitDatabase(ok)
  \/ startUpdateManager
  \/ Settle
  \/ \E e \in ServeEndpoints :
       mainpc = "serving" /\ hist.fetches < MaxServeFetches /\ HandlerFetch(e)
  \/ \E e \in ServeEndpoints : FetchResolve(e)
  \/ \E e \in ServeEndpoints : FetchReject(e)

ServeSpec == ServeInit /\ [][ServeNext]_vars

\* ------------------------------------------- the statistics store alone
\* initDatabase, saveBlocksToStats and the daily queries called in any
\* order, days apart, on a store file that is new or that an earlier
\* process left behind.
BlockOf(h, id, ts, txs, size) ==
  [id |-> id, height |-> h, timestamp |-> ts, difficulty |-> 1000,
   tx_count |-> txs, size |-> size]

\* A row of blocks_history of an earlier process.
HistoryRow(h, ts) ==
  [height |-> h, hash |-> h, timestamp |-> ts, tx_count |-> 1,
   size |-> 100, date |-> DateOf(ts)]

\* Rows 91 days old, a second more than 90 days, exactly 90 days and 89
\* days old when the process boots.
OldHistory ==
  { HistoryRow(11, BootSec - 91 * DAY_SECONDS),
    HistoryRow(12, BootSec - 90 * DAY_SECONDS - 1),
    HistoryRow(13, BootSec - 90 * DAY_SECONDS),
    HistoryRow(14, BootSec - 89 * DAY_SECONDS) }

\* The row of daily_stats the earlier process computed for a date, the
\* history rows of that date being those above.
DailyRow(date) ==
  LET rows == { r \in OldHistory : r.date = date }
  IN [date |-> date, tx_count |-> SumOver(rows, "tx_count"),
      block_count |-> Cardinality(rows),
      total_size |-> SumOver(rows, "size"),
      avg_block_size |->
        [num |-> SumOver(rows, "size"), den |-> Cardinality(rows)],
      updated_at |-> date * DAY_SECONDS]
OldDaily == { DailyRow(r.date) : r \in OldHistory }

\* The block lists a run hands to saveBlocksToStats: none, two blocks of
\* the day of the boot, another block at height 100, a block of the day
\* before, and blocks of both days.
Batches ==
  { <<>>,
    << BlockOf(101, 101, BootSec - 380, 3, 2000),
       BlockOf(100, 100, BootSec - 480, 5, 1000) >>,
    << BlockOf(100, 900, BootSec - 430, 9, 4000) >>,
    << BlockOf(99, 99, BootSec - 1080, 1, 500) >>,
    << BlockOf(102, 102, BootSec - 280, 2, 3000),
       BlockOf(98, 98, BootSec - 1180, 4, 700) >> }

\* The values of `days` the queries are called with.
QueryDays == 0..3

\* The variables the calls on the store leave alone.
storeFrame ==
  << mainpc, updateManagerRunning, lastUpdateTime, updateInterval,
     timerCount, ticksDue, liveCache, immutableCache, cycleCount, cycles,
     stragglers, awaiting, returned, requests, upstream, handlers >>

\* initDatabase(); `ok`: the store could be opened.
StoreInit(ok) ==
  /\ hist.ops < MaxStoreOps
  /\ db' = IF ok THEN initDatabase(db) ELSE db
  /\ hist' = [hist EXCEPT !.ops = @ + 1,
                          !.last = [kind |-> "init", ok |-> ok]]
  /\ UNCHANGED << now, storeFrame >>

\* saveBlocksToStats(blocks)
StoreSave(blocks, fault) ==
  /\ hist.ops < MaxStoreOps
  /\ fault # "none" => StoreUsed(db, blocks)
  /\ db' = saveBlocksToStats(db, blocks, fault)
  /\ hist' = [hist EXCEPT !.ops = @ + 1,
                          !.last = [kind |-> "save", blocks |-> blocks,
                                    fault |-> fault]]
  /\ UNCHANGED << now, storeFrame >>

\* getDailyStats(days), getDailyTxCounts(days), getDailyBlockSizes(days)
StoreQuery(days, fails) ==
  /\ hist.ops < MaxStoreOps
  /\ fails => db.open
  /\ hist' = [hist EXCEPT !.ops = @ + 1,
                !.last = [kind |-> "query", days |-> days, fails |-> fails,
                          stats |-> getDailyStats(db, days, fails),
                          txCounts |-> getDailyTxCounts(db, days, fails),
                          blockSizes |-> getDailyBlockSizes(db, days, fails)]]
  /\ UNCHANGED << now, db, storeFrame >>

\* A day passes.
StoreDay ==
  /\ hist.days < MaxDays
  /\ now' = now + DAY_SECONDS * 1000
  /\ hist' = [hist EXCEPT !.days = @ + 1, !.last = [kind |-> "day"]]
  /\ UNCHANGED << db, storeFrame >>

StoreInitial ==
  /\ now = StartTime
  /\ mainpc = "init"
  /\ updateManagerRunning = FALSE
  /\ lastUpdateTime = 0
  /\ updateInterval = FALSE
  /\ timerCount = 0
  /\ ticksDue = 0
  /\ liveCache = [k \in LiveKeySet |-> NoEntry]
  /\ immutableCache = [k \in ImmutableKeySet |-> NoEntry]
  /\ \E old \in BOOLEAN :
       db = [open |-> FALSE,
             blocks_history |-> IF old THEN OldHistory ELSE {},
             daily_stats |-> IF old THEN OldDaily ELSE {}]
  /\ cycleCount = 0
  /\ cycles = EmptyFn
  /\ stragglers = {}
  /\ awaiting = {}
  /\ returned = "no"
  /\ requests = NoRequests
  /\ upstream = [confirmed |-> FALSE]
  /\ handlers = NoHandlers
  /\ hist = [ops |-> 0, days |-> 0, last |-> [kind |-> "none"]]

StoreNext ==
  \/ \E ok \in BOOLEAN : StoreInit(ok)
  \/ \E blocks \in Batches, fault \in StoreFaults : StoreSave(blocks, fault)
  \/ \E days \in QueryDays, fails \in BOOLEAN : StoreQuery(days, fails)
  \/ StoreDay

StoreSpec == StoreInitial /\ [][StoreNext]_vars

\* ------------------------------------------------ the derived statistics
\* The derivations of a run applied to any short answer of /blocks: blocks
\* mined 0, 1 or 241 s after a common instant, in any order, each with a
\* difficulty of 0 or 1000 or with none.
DerivedTimes == {0, 1, 241}
DerivedBlocks ==
  { [id |-> 1, height |-> 1, timestamp |-> BootSec - 1000 + t,
     tx_count |-> 1, size |-> 100] : t \in DerivedTimes }
  \cup
  { [id |-> 1, height |-> 1, timestamp |-> BootSec - 1000 + t,
     difficulty |-> x, tx_count |-> 1, size |-> 100] :
       t \in DerivedTimes, x \in {0, 1000} }
DerivedLists ==
  UNION { [1..n -> DerivedBlocks] : n \in 0..MaxBlocks }

\* The variables the derivations leave alone.
deriveFrame ==
  << now, mainpc, updateManagerRunning, lastUpdateTime, updateInterval,
     timerCount, ticksDue, immutableCache, db, cycleCount, cycles,
     stragglers, awaiting, returned, requests, upstream, handlers >>

\* From `// Calculate stats` to setLive(LIVE_KEYS.DASHBOARD, dashboardData)
\* for the block list of hist.blocks, the reward being cached already.
Derive ==
  /\ ~hist.derived
  /\ LET f == [blocks |-> Ok(hist.blocks), tip |-> Ok(SLICE_END + 1),
               mempool |-> Ok(<<>>), supply |-> Failed]
     IN liveCache' =
          setLive(liveCache, LIVE_KEYS.DASHBOARD,
                  dashboardDataOf(1, f, Undefined))
  /\ hist' = [hist EXCEPT !.derived = TRUE]
  /\ UNCHANGED deriveFrame

DeriveInit ==
  /\ now = StartTime
  /\ mainpc = "serving"
  /\ updateManagerRunning = TRUE
  /\ lastUpdateTime = 0
  /\ updateInterval = TRUE
  /\ timerCount = 1
  /\ ticksDue = 0
  /\ liveCache = [k \in LiveKeySet |-> NoEntry]
  /\ immutableCache = [k \in ImmutableKeySet |-> NoEntry]
  /\ db = [open |-> FALSE, blocks_history |-> {}, daily_stats |-> {}]
  /\ cycleCount = 1
  /\ cycles = EmptyFn
  /\ stragglers = {}
  /\ awaiting = {}
  /\ returned = "no"
  /\ requests = NoRequests
  /\ upstream = [confirmed |-> FALSE]
  /\ handlers = NoHandlers
  /\ \E blocks \in DerivedLists : hist = [blocks |-> blocks, derived |-> FALSE]

DeriveNext == Derive

DeriveSpec == DeriveInit /\ [][DeriveNext]_vars

\* ------------------------------------------------------------ properties
\* The snapshot stored under live:dashboard, stale or not.
StoredDashboard == liveCache[LIVE_KEYS.DASHBOARD].value
\* What the readers of the two tiers can get.
LiveContents == Contents(liveCache, LIVE_TTL)
ImmutableContents == Contents(immutableCache, IMMUTABLE_TTL)
LastRun == hist.lastRun
Published == LastRun.outcome = "published"
Aborted == LastRun.outcome = "aborted"

\* A step in which updateManager() is called: the start-up call, a timer
\* callback, or a dashboard request that found the cache empty.
CallStep ==
  \/ ~updateInterval /\ updateInterval'
  \/ ticksDue' < ticksDue /\ updateInterval' = updateInterval
  \/ returned = "no" /\ returned' = "dropped"
  \/ awaiting' # awaiting /\ awaiting \subseteq awaiting'

\* C1: single-flight mutual exclusion.  In every reachable state at most
\* one run of the Update Manager is between acquiring the flag and
\* releasing it, and the flag is set exactly while a run is in flight.
C1_SingleFlight ==
  /\ Cardinality(InFlight) <= 1
  /\ updateManagerRunning <=> InFlight # {}

\* A run is in flight and a trigger arrived meanwhile.
C1_Witness == InFlight # {} /\ hist.dropped

\* C2: dropped, not queued.  A run starts only in a step that calls
\* updateManager() while the flag is clear, and the count of started runs
\* then grows by one; a call made while a run is in flight starts nothing;
\* and as long as a run is in flight no later run has been started, however
\* many calls were made meanwhile.
C2_DroppedNotQueued ==
  [][ /\ cycleCount' # cycleCount =>
           CallStep /\ ~updateManagerRunning /\ cycleCount' = cycleCount + 1
      /\ CallStep /\ updateManagerRunning =>
           cycleCount' = cycleCount /\ cycles' = cycles
      /\ \A c \in InFlight' : cycleCount' = c ]_vars

\* A second call is dropped during one and the same run.
C2_Witness == InFlight # {} /\ hist.dropped /\ returned = "dropped"

\* C3: a dashboard request that awaits updateManager() resumes only once
\* a run has settled: when its await returns, no run is in flight.
C3_ReturnsOnceSettled == returned # "no" => ~updateManagerRunning

\* C4: guaranteed release.  Whenever the flag is set it is eventually
\* cleared, provided every upstream request eventually settles.
C4_GuaranteedRelease == updateManagerRunning ~> ~updateManagerRunning

\* A run has ended on the error path and the flag is clear.
C4_Witness == Aborted /\ ~updateManagerRunning /\ InFlight = {}

\* C5: snapshot atomicity.  What getDashboard() returns is absent or holds
\* every field of a snapshot, all written by one and the same run, also
\* while a later run is in flight.
C5_SnapshotAtomic ==
  LET d == getDashboard
  IN d.present =>
       /\ DOMAIN d.value = SnapshotFields \cup {"by"}
       /\ \A x, y \in SnapshotFields : d.value.by[x] = d.value.by[y]

\* A reader finds a snapshot while a later run awaits its reward request.
C5_Witness ==
  /\ getDashboard.present
  /\ \E c \in InFlight :
       cycles[c].pc = "reward" /\ StoredDashboard.by["blocks"] < c

\* A step of run c that does not publish: its start, the settling of one
\* of its requests, or its abort.
RunStarts(c) == c \notin InFlight /\ c \in InFlight'
RunProgresses(c) ==
  c \in InFlight /\ c \in InFlight' /\ cycles'[c] # cycles[c]
RunAborts(c) == c \in InFlight /\ c \notin InFlight' /\ Aborted'

\* C6: abort on required-fetch failure.  A run whose blocks or tip-height
\* request fails publishes nothing: no step of a run other than its publish
\* changes what a live key or a key of the immutable cache reads as, the
\* store or lastUpdateTime;
\* an abort leaves the timer as it is; and a run that published had both
\* requests succeed.
C6_AbortPublishesNothing ==
  [][ /\ \A c \in 1..MaxCycles :
           /\ RunStarts(c) \/ RunProgresses(c) \/ RunAborts(c) =>
                /\ LiveContents' = LiveContents
                /\ ImmutableContents' = ImmutableContents
                /\ UNCHANGED << db, lastUpdateTime >>
           /\ RunProgresses(c) \/ RunAborts(c) =>
                UNCHANGED << updateInterval, timerCount, ticksDue >>
      /\ Published' => LastRun'.fetch.blocks = "ok" /\ LastRun'.fetch.tip = "ok"
    ]_vars

\* A run was aborted by a rejected request when the caches and the store
\* already held data.
C6_Witness ==
  /\ Aborted
  /\ LastRun.cause = "rejected"
  /\ liveCache[LIVE_KEYS.DASHBOARD].present
  /\ db.blocks_history # {}

\* C7: partial degradation.  A run is aborted only by a rejected blocks or
\* tip-height request or by an exception; a run whose mempool or supply
\* request failed still publishes, with mempoolCount 0 resp. supply 0, the
\* other fields derived from what the same run fetched, and advances
\* lastUpdateTime.
C7_PartialDegradation ==
  /\ Aborted => LastRun.cause \in {"rejected", "threw"}
  /\ Published /\ liveCache[LIVE_KEYS.DASHBOARD].present =>
       LET d == StoredDashboard
           blocks == liveCache[LIVE_KEYS.BLOCKS].value
       IN /\ LastRun.fetch.mempool = "fail" => d.mempoolCount = 0
          /\ LastRun.fetch.supply = "fail" => d.supply = 0
          /\ LastRun.fetch.mempool = "ok" =>
               d.mempoolCount = Len(liveCache[LIVE_KEYS.MEMPOOL].value)
                 /\ liveCache[LIVE_KEYS.MEMPOOL].value \in Mempools
          /\ LastRun.fetch.supply = "ok" =>
               d.supply \in { x.total_amount_float : x \in Supplies }
          /\ d.tipHeight = liveCache[LIVE_KEYS.TIP_HEIGHT].value
          /\ d.blocks = Slice(blocks, 0, SLICE_END)
          /\ d.avgBlockTime = avgBlockTimeOf(blocks)
          /\ d.difficulty = latestDifficultyOf(blocks)
          /\ d.hashrate = hashrateOf(d.difficulty, d.avgBlockTime)
          /\ d.by["mempoolCount"] = LastRun.id
          /\ lastUpdateTime = d.updatedAt
          /\ lastUpdateTime = hist.lastPublishAt

\* A run published although both its mempool and its supply request failed.
C7_Witness ==
  /\ Published
  /\ LastRun.fetch.mempool = "fail"
  /\ LastRun.fetch.supply = "fail"

\* C8: sticky block reward across consecutive runs.  If the run before the
\* last published reward R # 0 and the reward sub-step of the last run
\* failed or derived nothing, the last run published R.
C8_StickyNextCycle ==
  (/\ Published
   /\ LastRun.prevReward # 0
   /\ LastRun.reward \in {"fail", "underivable"})
    => LastRun.blockReward = LastRun.prevReward

\* C9: sticky block reward over any history.  Once a snapshot has reported
\* a non-zero reward, no later published snapshot reports 0.
C9_StickyForever ==
  Published /\ LastRun.knownBefore => LastRun.blockReward # 0

\* C10: freshness.  isCacheFresh() holds exactly when a run has published
\* and less than three refresh intervals have passed since the last
\* publish; lastUpdateTime is 0 before the first publish and the commit
\* time of the last published run afterwards, whatever runs were aborted.
C10_Freshness ==
  /\ isCacheFresh <=>
       /\ hist.lastPublishAt # -1
       /\ now - hist.lastPublishAt < 3 * UPDATE_INTERVAL
  /\ lastUpdateTime = IF hist.lastPublishAt = -1 THEN 0 ELSE hist.lastPublishAt

\* The cache was fresh, a run was aborted, and freshness has lapsed.
C10_Witness ==
  /\ hist.lastPublishAt # -1
  /\ Aborted
  /\ now - hist.lastPublishAt = 3 * UPDATE_INTERVAL
  /\ ~isCacheFresh

\* A step that writes the dashboard key: it holds a snapshot it did not
\* hold before.
DashboardWritten ==
  /\ liveCache'[LIVE_KEYS.DASHBOARD].present
  /\ liveCache[LIVE_KEYS.DASHBOARD].present =>
       liveCache'[LIVE_KEYS.DASHBOARD].value # StoredDashboard

\* C12: bounded staleness.  A snapshot that getDashboard() returns is at
\* most 60 s old, and once more than 60 s have passed since the last
\* publish (or none was made) the dashboard, blocks, tip-height and mempool
\* keys all read as absent.
C12_BoundedStaleness ==
  /\ getDashboard.present => now - getDashboard.value.updatedAt <= 60 * 1000
  /\ (hist.lastPublishAt = -1 \/ now - hist.lastPublishAt > 60 * 1000) =>
       /\ ~getDashboard.present
       /\ ~getBlocks.present
       /\ ~getTipHeight.present
       /\ ~getMempool.present

\* The refresh loop has published nothing for 70 s: the blocks key is still
\* stored, and reads as absent.
C12_Witness ==
  /\ hist.lastPublishAt # -1
  /\ now - hist.lastPublishAt > 60 * 1000
  /\ liveCache[LIVE_KEYS.BLOCKS].present
  /\ ~getBlocks.present

\* C14: coordinated publish.  Whenever a reader finds the dashboard key it
\* finds the blocks, tip-height and mempool keys too, written at the same
\* instant, and the snapshot agrees with them: tipHeight is the tip-height
\* key, blocks the first 15 elements of the blocks key, mempoolCount the
\* length of the mempool key, blockReward the blockReward key or 0 when
\* that key is absent.
C14_CoordinatedPublish ==
  LET d == getDashboard
      at == liveCache[LIVE_KEYS.DASHBOARD].start
      blocks == getBlocks.value
      shown == IF Len(blocks) < 15 THEN Len(blocks) ELSE 15
  IN d.present =>
       /\ getBlocks.present /\ liveCache[LIVE_KEYS.BLOCKS].start = at
       /\ getTipHeight.present /\ liveCache[LIVE_KEYS.TIP_HEIGHT].start = at
       /\ getMempool.present /\ liveCache[LIVE_KEYS.MEMPOOL].start = at
       /\ d.value.tipHeight = getTipHeight.value
       /\ d.value.blocks = [i \in 1..shown |-> blocks[i]]
       /\ d.value.mempoolCount = Len(getMempool.value)
       /\ d.value.blockReward =
            IF getBlockReward.present THEN getBlockReward.value ELSE 0
       /\ getBlockReward.present =>
            liveCache[LIVE_KEYS.BLOCK_REWARD].start = at

\* A reader finds a snapshot of 15 blocks cut from a blocks key of 16, with
\* no blockReward key.
C14_Witness ==
  /\ getDashboard.present
  /\ Len(getBlocks.value) > 15
  /\ Len(getDashboard.value.blocks) = 15
  /\ ~getBlockReward.present

\* C15: best-effort persistence.  Every step that writes the dashboard key
\* is the publish of a run that ends as published, whatever happened in the
\* store during it: the snapshot and the live keys it wrote are there
\* afterwards, lastUpdateTime is the time of the step, the flag is released
\* and the promise of updateManager() is not rejected.
C15_BestEffortPersistence ==
  [][ DashboardWritten =>
        /\ Published'
        /\ LastRun' # LastRun
        /\ StoredDashboard'.by["blocks"] = LastRun'.id
        /\ \A k \in {LIVE_KEYS.DASHBOARD, LIVE_KEYS.BLOCKS,
                     LIVE_KEYS.TIP_HEIGHT, LIVE_KEYS.MEMPOOL} :
             liveCache'[k].present /\ liveCache'[k].start = now'
        /\ lastUpdateTime' = now'
        /\ ~updateManagerRunning'
        /\ returned' # "rejected"
        /\ LastRun'.store = "insert" => db' = db
        /\ LastRun'.store = "rollup" => db'.daily_stats = db.daily_stats
    ]_vars

\* A run has published although the insert into the store failed.
C15_Witness ==
  /\ Published
  /\ LastRun.store = "insert"
  /\ getDashboard.present
  /\ lastUpdateTime = hist.lastPublishAt

\* C16: error containment.  The promise of updateManager() a dashboard
\* request awaits is never rejected: the await returns because the call
\* was dropped or because the run it started has settled, published or
\* aborted.
C16_ErrorContainment == returned \in {"no", "dropped", "settled"}

\* The await of a dashboard request has returned after the run it awaited
\* was aborted by a rejected request.
C16_Witness ==
  /\ returned = "settled"
  /\ Aborted
  /\ LastRun.cause = "rejected"
  /\ ~getDashboard.present

\* The requests of the fan-out of run c that have not settled.
PendingFetches(c) ==
  { e \in Endpoints : cycles[c].fetch[e].st = "pending" }

\* C17: publish ordering within a run.  A step that writes the dashboard
\* key is taken by a run in flight all of whose requests have settled by
\* then: it is the settling of the last outstanding request of the fan-out
\* or of the reward request, and the run leaves no request outstanding.
C17_PublishAfterFetches ==
  [][ DashboardWritten =>
        LET c == StoredDashboard'.by["blocks"]
        IN /\ c \in InFlight
           /\ c \notin InFlight'
           /\ Cardinality(PendingFetches(c)) =
                (IF cycles[c].pc = "fanout" THEN 1 ELSE 0)
           /\ cycles[c].pc = "reward" => cycles[c].reward.st = "pending"
           /\ \A x \in stragglers' : x.cycle # c
    ]_vars

\* A run has published after its reward request, the last of five, failed.
C17_Witness ==
  /\ Published
  /\ LastRun.reward = "fail"
  /\ getDashboard.present
  /\ StoredDashboard.by["blocks"] = LastRun.id

\* C18: publish ordering across runs.  A run that writes the dashboard key
\* was started after every run that published before it, and the snapshot
\* stored is always that of the last run that published.
C18_PublishOrder ==
  [][ /\ DashboardWritten =>
           StoredDashboard'.by["blocks"] > hist.lastPublished
      /\ liveCache'[LIVE_KEYS.DASHBOARD].present =>
           StoredDashboard'.by["blocks"] = hist'.lastPublished
    ]_vars

\* The second run has published over the snapshot of the first.
C18_Witness ==
  /\ Published
  /\ LastRun.id = 2
  /\ LastRun.prevReward # 0
  /\ getDashboard.present
  /\ StoredDashboard.by["blocks"] = 2

\* The tier the calls are made on, and what get answers on it.
Tier == IF hist.tier = "live" THEN liveCache ELSE immutableCache
TierGet(k) == IF hist.tier = "live" THEN getLive(k) ELSE getImmutable(k)

\* The last set of key k: by a call, or when the tier was filled.
LastSet(k) ==
  IF k \in DOMAIN hist.lastSet /\ hist.lastSet[k].at # -1
  THEN hist.lastSet[k]
  ELSE IF hist.filled /\ k >= 2 /\ k <= TierMax(hist.tier)
  THEN [at |-> StartTime, value |-> 0]
  ELSE NeverSet

\* C11: the ttl contract of both tiers.  For every key, get answers absent
\* when the key was never set or when more than the ttl of the tier (60 s,
\* 1 h) has passed since its last set; it answers the value of the last set
\* when less than the ttl has passed since then and no more sets were made
\* than the tier has room for.  The age counts from the last set, whatever
\* gets were made since.
C11_TtlContract ==
  LET ttl == IF hist.tier = "live" THEN 60 * 1000 ELSE 60 * 60 * 1000
  IN \A k \in DOMAIN Tier :
       LET w == LastSet(k)
       IN /\ w.at = -1 => ~TierGet(k).present
          /\ w.at # -1 /\ now - w.at > ttl => ~TierGet(k).present
          /\ w.at # -1 /\ now - w.at < ttl /\ hist.sets <= TierMax(hist.tier)
               => TierGet(k) = Value(w.value)

\* A key was set twice, 60 s apart; 10 s after the second set it reads as
\* the second value, and an entry set when the tier was filled, now 70 s
\* old and still stored, reads as absent.
C11_Witness ==
  /\ hist.tier = "live"
  /\ hist.filled
  /\ hist.calls = 4
  /\ hist.lastSet[1].value = 3
  /\ now - hist.lastSet[1].at = UPDATE_INTERVAL
  /\ getLive(1) = Value(3)
  /\ liveCache[3].present
  /\ ~getLive(3).present

\* When key k was last used: set, or got and found.  The keys set when the
\* tier was filled and not used since are older the smaller they are.
LastUse(k) ==
  IF k \in DOMAIN hist.lastUse /\ hist.lastUse[k] # 0
  THEN hist.lastUse[k]
  ELSE k - TierMax(hist.tier) - 1

\* C13: capacity bound with LRU eviction.  The live tier never holds more
\* than 100 entries and the immutable tier never more than 1000.  A set of
\* a key that is not stored in a full tier removes exactly one entry, the
\* one whose last use is the oldest, which reads as absent afterwards; any
\* other set removes nothing.
C13_CapacityLru ==
  [][ /\ Size(liveCache') <= 100
      /\ Size(immutableCache') <= 1000
      /\ hist'.calls # hist.calls /\ hist'.last.kind = "set" =>
           LET k == hist'.last.key
               max == IF hist.tier = "live" THEN 100 ELSE 1000
               before == Stored(Tier)
               after == Stored(Tier')
               gone == before \ after
           IN IF ~Tier[k].present /\ Cardinality(before) = max
              THEN /\ after \ before = {k}
                   /\ Cardinality(gone) = 1
                   /\ \A e \in gone :
                        /\ \A y \in before : LastUse(e) <= LastUse(y)
                        /\ ~TierGet(e)'.present
              ELSE /\ gone = {}
                   /\ after = before \cup {k}
    ]_vars

\* The immutable tier was filled, its oldest entry was then got, and a set
\* of a new key has evicted the second oldest: key 2 is stored, key 3 is
\* not.
C13_Witness ==
  /\ hist.tier = "immutable"
  /\ hist.filled
  /\ Size(immutableCache) = 1000
  /\ immutableCache[1].present
  /\ immutableCache[2].present
  /\ immutableCache[1001].present
  /\ ~immutableCache[3].present

\* C19: immutable-cache write idempotence.  All the values ever written
\* under one key of the immutable cache are equal, whoever wrote them and
\* whenever.
C19_WriteIdempotence ==
  \A e \in FetchEndpoints : Cardinality(hist.written[e]) <= 1

StoreCall(kind) == hist'.ops # hist.ops /\ hist'.last.kind = kind
RowsOf(history, date) == { r \in history : r.date = date }

\* C21: idempotent history insert.  After saveBlocksToStats every row that
\* was in blocks_history is still there with the same hash, timestamp,
\* tx_count, size and date, whatever the blocks of the batch carry, and no
\* height has two rows.
C21_IdempotentInsert ==
  [][ StoreCall("save") =>
        /\ \A r \in db.blocks_history : r \in db'.blocks_history
        /\ \A x, y \in db'.blocks_history : x.height = y.height => x = y
    ]_vars

\* Height 100 was stored with hash 100 and size 1000, and a batch carrying
\* height 100 with hash 900 and size 4000 has then been saved.
C21_Witness ==
  /\ hist.last.kind = "save"
  /\ hist.last.fault = "none"
  /\ Len(hist.last.blocks) = 1
  /\ hist.last.blocks[1].height = 100
  /\ hist.last.blocks[1].id = 900
  /\ db.open
  /\ \E r \in db.blocks_history :
       r.height = 100 /\ r.hash = 100 /\ r.size = 1000 /\ r.tx_count = 5

\* C22: rollup of every touched date.  After a saveBlocksToStats without a
\* store error that has inserted rows, every date a block of the batch
\* falls in has a daily record that counts all the history rows of that
\* date.
C22_RollupEveryDate ==
  [][ /\ StoreCall("save")
      /\ hist'.last.fault = "none"
      /\ db'.blocks_history # db.blocks_history
      => \A i \in 1..Len(hist'.last.blocks) :
           LET date == DateOf(hist'.last.blocks[i].timestamp)
               rows == RowsOf(db'.blocks_history, date)
           IN \E d \in db'.daily_stats :
                /\ d.date = date
                /\ d.block_count = Cardinality(rows)
                /\ d.tx_count = SumOver(rows, "tx_count")
    ]_vars

\* C23: daily rollup correctness.  A saveBlocksToStats without a store
\* error recomputes the record of the current day when that day has
\* history rows: afterwards daily_stats holds exactly one record of that
\* date, with block_count the number of the rows, tx_count and total_size
\* the sums over them and avg_block_size their quotient.  Every record a
\* call writes is one of a date that has history rows.
C23_RollupCorrect ==
  [][ StoreCall("save") =>
        LET rows == RowsOf(db'.blocks_history, Today)
            count == Cardinality(rows)
            written == db'.daily_stats \ db.daily_stats
        IN /\ \A d \in written :
                d.date = Today /\ count > 0 /\ hist'.last.fault = "none"
           /\ /\ hist'.last.fault = "none"
              /\ StoreUsed(db, hist'.last.blocks)
              /\ count > 0
              => \E d \in db'.daily_stats :
                   /\ \A e \in db'.daily_stats : e.date = Today => e = d
                   /\ d.date = Today
                   /\ d.block_count = count
                   /\ d.tx_count = SumOver(rows, "tx_count")
                   /\ d.total_size = SumOver(rows, "size")
                   /\ d.avg_block_size.den # 0
                   /\ d.avg_block_size.num * count =
                        d.total_size * d.avg_block_size.den
                   /\ d.updated_at = NowSec
    ]_vars

\* The rows {size 1000, txs 5} and {size 2000, txs 3} of one date give the
\* record 2, 8, 3000, 3000 / 2.
C23_Witness ==
  /\ hist.last.kind = "save"
  /\ RowsOf(db.blocks_history, Today) # {}
  /\ { [size |-> r.size, txs |-> r.tx_count] :
         r \in RowsOf(db.blocks_history, Today) } =
       { [size |-> 1000, txs |-> 5], [size |-> 2000, txs |-> 3] }
  /\ \E d \in db.daily_stats :
       /\ d.date = Today
       /\ d.block_count = 2
       /\ d.tx_count = 8
       /\ d.total_size = 3000
       /\ d.avg_block_size = [num |-> 3000, den |-> 2]

\* C24: retention sweep.  A successful initDatabase() leaves exactly the
\* history rows whose timestamp is not earlier than now - 90 days and the
\* daily rows dated not before the day of now - 90 days; no other call and
\* no passing of time removes the row of a height or of a date.
C24_RetentionSweep ==
  [][ IF StoreCall("init") /\ hist'.last.ok
      THEN LET cutoff == NowSec - 90 * 24 * 60 * 60
           IN /\ db'.open
              /\ db'.blocks_history =
                   { r \in db.blocks_history : r.timestamp >= cutoff }
              /\ db'.daily_stats =
                   { d \in db.daily_stats :
                       d.date >= cutoff \div (24 * 60 * 60) }
      ELSE /\ \A r \in db.blocks_history :
                \E x \in db'.blocks_history : x.height = r.height
           /\ \A d \in db.daily_stats :
                \E x \in db'.daily_stats : x.date = d.date
    ]_vars

\* initDatabase() at boot on the store an earlier process left: the rows
\* 91 days old are gone, the rows 90 and 89 days old are there.
C24_Witness ==
  /\ hist.last.kind = "init"
  /\ hist.last.ok
  /\ hist.days = 0
  /\ HistoryRow(11, BootSec - 91 * DAY_SECONDS) \notin db.blocks_history
  /\ HistoryRow(12, BootSec - 90 * DAY_SECONDS - 1) \notin db.blocks_history
  /\ HistoryRow(13, BootSec - 90 * DAY_SECONDS) \in db.blocks_history
  /\ HistoryRow(14, BootSec - 89 * DAY_SECONDS) \in db.blocks_history
  /\ { d.date : d \in db.daily_stats } = {10, 11}

\* C25: the daily queries.  getDailyStats(n) answers, oldest first, the n
\* daily records of the latest dates, all of them when there are fewer,
\* and nothing when the store is not open or the query fails; the two
\* projections answer one element per record, with its date, in that order.
C25_DailyQueries ==
  hist.last.kind = "query" =>
    LET stats == hist.last.stats
        n == hist.last.days
        all == db.daily_stats
        got == { stats[i] : i \in 1..Len(stats) }
    IN /\ IF ~db.open \/ hist.last.fails
          THEN stats = <<>>
          ELSE /\ Len(stats) =
                    IF Cardinality(all) < n THEN Cardinality(all) ELSE n
               /\ got \subseteq all
               /\ \A i, j \in 1..Len(stats) :
                    i < j => stats[i].date < stats[j].date
               /\ \A x \in all \ got : \A y \in got : x.date < y.date
       /\ Len(hist.last.txCounts) = Len(stats)
       /\ Len(hist.last.blockSizes) = Len(stats)
       /\ \A i \in 1..Len(stats) :
            /\ hist.last.txCounts[i].date = stats[i].date
            /\ hist.last.blockSizes[i].date = stats[i].date

\* getDailyStats(2) on a store with three daily records has answered the
\* two latest, the older one first.
C25_Witness ==
  /\ hist.last.kind = "query"
  /\ hist.last.days = 2
  /\ Cardinality(db.daily_stats) = 3
  /\ Len(hist.last.stats) = 2
  /\ hist.last.stats[1].date < hist.last.stats[2].date
  /\ \E d \in db.daily_stats : d.date < hist.last.stats[1].date
  /\ hist.last.txCounts[2].date = hist.last.stats[2].date

\* The block list the derivations were applied to and the snapshot that
\* was published from it.
DerivedFrom == hist.blocks
Span(blocks) == blocks[1].timestamp - blocks[Len(blocks)].timestamp

\* C26 as stated: with two blocks or more, avgBlockTime times (count - 1)
\* is the time between the oldest and the newest block.
C26_ExactQuotient ==
  getDashboard.present /\ Len(DerivedFrom) >= 2 =>
    getDashboard.value.avgBlockTime * (Len(DerivedFrom) - 1) =
      Span(DerivedFrom)

\* C26: avgBlockTime derivation.  With two blocks or more the published
\* avgBlockTime is the integer nearest to (timestamp of the newest block -
\* timestamp of the oldest) / (count - 1), a half going upwards; with fewer
\* it is 120.
C26_AvgBlockTime ==
  getDashboard.present =>
    LET n == Len(DerivedFrom)
        avg == getDashboard.value.avgBlockTime
    IN IF n >= 2
       THEN /\ (2 * avg - 1) * (n - 1) <= 2 * Span(DerivedFrom)
            /\ 2 * Span(DerivedFrom) < (2 * avg + 1) * (n - 1)
       ELSE avg = 120

\* Three blocks over 241 s: 120.5 s a block, published as 121.
C26_Witness ==
  /\ getDashboard.present
  /\ Len(DerivedFrom) = 3
  /\ Span(DerivedFrom) = 241
  /\ getDashboard.value.avgBlockTime = 121

\* C27: hashrate derivation.  The published hashrate is difficulty * 2^32 /
\* avgBlockTime, with the difficulty the snapshot publishes, that of the
\* newest block (0 without blocks or without the field), and the
\* avgBlockTime the same snapshot publishes.
C27_Hashrate ==
  getDashboard.present =>
    LET d == getDashboard.value
        newest == IF DerivedFrom = <<>> THEN [none |-> 0] ELSE DerivedFrom[1]
        difficulty == IF "difficulty" \in DOMAIN newest
                      THEN newest.difficulty ELSE 0
    IN /\ d.difficulty = difficulty
       /\ d.hashrate.coef = difficulty
       /\ d.hashrate.pow2 = 32
       /\ d.hashrate.den = d.avgBlockTime

\* Difficulty 1000 and an avgBlockTime of 120 give 1000 * 2^32 / 120, the
\* oldest block having no difficulty.
C27_Witness ==
  /\ getDashboard.present
  /\ Len(DerivedFrom) = 3
  /\ "difficulty" \notin DOMAIN DerivedFrom[3]
  /\ getDashboard.value.avgBlockTime = 120
  /\ getDashboard.value.hashrate = [coef |-> 1000, pow2 |-> 32, den |-> 120]

\* C28: stop semantics.  stopUpdateManager() with a timer armed leaves no
\* timer and no timer callback due, and changes neither the runs in flight
\* nor the flag, the caches, the requests outstanding or a waiting handler;
\* whenever no timer is armed no callback of it is due, so that the timer
\* starts no run after the stop.
C28_StopSemantics ==
  [][ /\ updateInterval /\ ~updateInterval' =>
           /\ timerCount' = 0
           /\ UNCHANGED << now, updateManagerRunning, cycles, cycleCount,
                           stragglers, awaiting, returned, liveCache,
                           immutableCache, lastUpdateTime, db >>
      /\ ~updateInterval' => ticksDue' = 0 /\ timerCount' = 0
      /\ cycleCount' # cycleCount /\ ticksDue' < ticksDue => updateInterval
    ]_vars

\* The manager was stopped while a run was in flight, and that run has
\* published since.
C28_Witness ==
  /\ mainpc = "serving"
  /\ ~updateInterval
  /\ Published
  /\ LastRun.id \in hist.inFlightAtStop
  /\ getDashboard.present
  /\ StoredDashboard.by["blocks"] = LastRun.id

\* The run that takes the step, when it goes from the fan-out to the reward
\* request, and the run that publishes in the step.
IssuesReward(c) ==
  /\ c \in InFlight /\ c \in InFlight'
  /\ cycles[c].pc = "fanout" /\ cycles'[c].pc = "reward"
Publisher == StoredDashboard'.by["blocks"]
RewardKey == LIVE_KEYS.BLOCK_REWARD

\* C30 as stated: whenever the first input of the fetched transaction is a
\* coinbase, the blockReward key is set.
C30_KeySetOnCoinbase ==
  [][ DashboardWritten /\ LastRun'.reward = "derived" =>
        LiveContents'[RewardKey].present
    ]_vars

\* C30: block reward derivation.  A run issues the reward request only when
\* the blockReward key reads as absent or 0 and the block list is not
\* empty, and with such a key and list it does not publish without it.
\* When the first input of the fetched transaction is a coinbase the
\* snapshot reports the sum of its outputs, the transaction is stored in the
\* immutable cache, and the blockReward key is set to the sum when the sum
\* is not 0 and stays absent when it is 0.  Otherwise the blockReward key
\* and the immutable cache read as before and the snapshot reports the
\* cached reward, or 0.
C30_RewardDerivation ==
  [][ /\ \A c \in InFlight :
           IssuesReward(c) =>
             /\ ~Truthy(LiveContents[RewardKey])
             /\ cycles'[c].fetch.blocks.v # <<>>
      /\ DashboardWritten =>
           LET run == LastRun'
               cached == LiveContents[RewardKey]
               reported == StoredDashboard'.blockReward
           IN IF cycles[Publisher].pc = "fanout"
              THEN /\ Truthy(cached) \/ StoredDashboard'.blocks = <<>>
                   /\ run.reward = "none"
                   /\ reported = IF Truthy(cached) THEN cached.value ELSE 0
                   /\ LiveContents'[RewardKey] = cached
                   /\ ImmutableContents' = ImmutableContents
              ELSE IF run.reward = "derived"
              THEN LET tx == run.rewardTxs[1]
                       sum == SumValues(tx.vout)
                   IN /\ tx.vin[1].is_coinbase
                      /\ reported = sum
                      /\ ImmutableContents' =
                           [ImmutableContents EXCEPT
                              ![TxKey(tx.txid)] = Value(tx)]
                      /\ LiveContents'[RewardKey] =
                           IF sum # 0 THEN Value(sum) ELSE cached
                      /\ ~cached.present
              ELSE /\ run.reward \in {"fail", "underivable"}
                   /\ LiveContents'[RewardKey] = cached
                   /\ ImmutableContents' = ImmutableContents
                   /\ reported = IF Truthy(cached) THEN cached.value ELSE 0
    ]_vars

\* A run has fetched a coinbase whose outputs sum to 0: the transaction is
\* in the immutable cache, the snapshot reports 0 and there is no
\* blockReward key.
C30_Witness ==
  /\ Published
  /\ LastRun.reward = "derived"
  /\ LastRun.rewardTxs = << ZeroCoinbaseTx >>
  /\ getImmutable(TxKey(ZeroCoinbaseTx.txid)) = Value(ZeroCoinbaseTx)
  /\ getDashboard.present
  /\ getDashboard.value.blockReward = 0
  /\ ~getBlockReward.present

\* C29: recovery without backoff.  The abort of a run changes nothing of
\* the timer, and when a run has aborted with the timer armed then, the
\* requests for the blocks and the tip height succeeding from some point
\* on, either the manager is stopped or a run publishes and isCacheFresh()
\* is true.
C29_Recovery ==
  /\ [][ (\E c \in InFlight : RunAborts(c)) =>
           UNCHANGED << updateInterval, timerCount, ticksDue >> ]_vars
  /\ (Aborted /\ updateInterval) ~>
       (~updateInterval \/ (Published /\ isCacheFresh))

\* The run after an aborted one has published, the timer still armed.
C29_Witness ==
  /\ updateInterval
  /\ Published
  /\ LastRun.prevOutcome = "aborted"
  /\ isCacheFresh
  /\ getDashboard.present

\* C32: freshness implies presence.  Whenever isCacheFresh() is true,
\* getDashboard(), getBlocks(), getTipHeight() and getMempool() all answer a
\* value, written by the run that set lastUpdateTime: the entries of a
\* publish outlive the freshness window of 30 s.
C32_FreshImpliesPresent ==
  isCacheFresh =>
    /\ \A k \in {LIVE_KEYS.DASHBOARD, LIVE_KEYS.BLOCKS, LIVE_KEYS.TIP_HEIGHT,
                 LIVE_KEYS.MEMPOOL} :
         getLive(k).present /\ liveCache[k].start = lastUpdateTime
    /\ now - lastUpdateTime < 30 * 1000
    /\ getDashboard.value.by["blocks"] = hist.lastPublished

\* 20 s after the second run published: the cache is fresh and the four
\* keys are read, the mempool key as the empty list the run stored when its
\* mempool request failed.
C32_Witness ==
  /\ isCacheFresh
  /\ now - lastUpdateTime = 2 * UPDATE_INTERVAL
  /\ Published
  /\ LastRun.id = 2
  /\ LastRun.fetch.mempool = "fail"
  /\ getMempool = Value(<<>>)
  /\ getDashboard.present

\* C34 as stated: no stragglers when idle.  Whenever the single-flight flag
\* is released, no upstream request issued by a run that has ended is still
\* outstanding.
C34_NoStragglersWhenIdle == ~updateManagerRunning => stragglers = {}

\* C33 as stated: positive block time.  Whatever block list the upstream
\* answers, the avgBlockTime of a published snapshot is greater than 0, so
\* that the hashrate is never a quotient by 0 or by a negative number.
C33_PositiveBlockTime ==
  getDashboard.present =>
    /\ getDashboard.value.avgBlockTime > 0
    /\ getDashboard.value.hashrate.den > 0

\* What daily_stats says of a date agrees with blocks_history: every daily
\* record counts the history rows of its date.
RollupConsistent(d) ==
  \A x \in d.daily_stats :
    x.block_count = Cardinality(RowsOf(d.blocks_history, x.date))

\* C37 as stated: rollup consistency after the retention sweep.  Right
\* after a successful initDatabase() on a store whose daily records agreed
\* with its history, every daily record that is left counts the history
\* rows of its date that are left.
C37_ConsistentAfterSweep ==
  [][ StoreCall("init") /\ hist'.last.ok /\ RollupConsistent(db) =>
        RollupConsistent(db')
    ]_vars

\* C38: start is idempotent.  The start at boot starts the first run and
\* arms the timer.  A start with no timer armed arms one timer and calls
\* updateManager() once, which starts a run or, a run being in flight, is
\* dropped; no step arms a timer while one is armed, so that there is never
\* more than one timer, the handle is held exactly while it is armed, and at
\* most one callback is due at a time.
C38_StartIdempotent ==
  /\ [][ /\ mainpc = "start" /\ mainpc' = "serving" =>
              /\ ~updateInterval /\ updateInterval'
              /\ cycleCount' = 1 /\ InFlight' = {1}
         /\ ~updateInterval /\ updateInterval' =>
              /\ timerCount = 0 /\ timerCount' = 1
              /\ ticksDue' = ticksDue
              /\ IF updateManagerRunning
                 THEN /\ cycleCount' = cycleCount /\ cycles' = cycles
                      /\ hist'.dropped
                 ELSE /\ cycleCount' = cycleCount + 1
                      /\ InFlight' = {cycleCount + 1}
         /\ updateInterval /\ updateInterval' => timerCount' = timerCount
       ]_vars
  /\ [](/\ timerCount <= 1
        /\ updateInterval <=> timerCount = 1
        /\ ticksDue <= timerCount)

\* The manager was stopped while its first run was in flight and started
\* again at once: one timer is armed, and the call of the second start was
\* dropped.
C38_Witness ==
  /\ mainpc = "serving"
  /\ now = StartTime
  /\ hist.inFlightAtStop = {1}
  /\ InFlight = {1}
  /\ updateInterval
  /\ timerCount = 1
  /\ hist.dropped

\* A handler has just called fetchFromElectrs for endpoint e.
FetchOf(e) == hist'.fetches # hist.fetches /\ hist'.last.endpoint = e

\* C35 as stated: the coinbase transaction cache is usable by handlers.
\* While the immutable cache reads the coinbase transaction T the Update
\* Manager stored, a handler's fetch of /tx/T is answered from the immutable
\* cache and sends no request.
C35_CoinbaseServedFromCache ==
  [][ /\ FetchOf(CoinbaseById)
      /\ getImmutable(TxKey(CoinbaseById.txid)) = Value(CoinbaseTx)
      => /\ hist'.last.kind = "hit"
         /\ hist'.last.returns = CoinbaseTx
         /\ requests' = requests
    ]_vars

\* The paths that do not start with /tx/ or /block/ and 64 characters of
\* [a-f0-9].
MutableEndpoints ==
  {BlocksPath, TipHeightPath, MempoolRecentPath, AddressPath, BlockHeightPath}

\* C36: mutable endpoints are never served from the immutable cache.  No
\* step of a handler or of the Update Manager stores a value under the key
\* of a path that addresses nothing by hash, and every handler fetch of such
\* a path misses and sends one request.
C36_MutableNeverCached ==
  /\ [](\A e \in MutableEndpoints : ~immutableCache[e].present)
  /\ [][ \A e \in MutableEndpoints :
           FetchOf(e) =>
             /\ hist'.last.kind = "miss"
             /\ requests' = [requests EXCEPT ![e] = @ + 1]
       ]_vars

\* The Update Manager has stored a coinbase transaction, a handler's fetch
\* of /block/:hash/txs/0 was stored, and the request of a fetch of
\* /blocks/tip/height has then resolved: nothing is stored under that path.
C36_Witness ==
  /\ hist.last.kind = "resolved"
  /\ hist.last.endpoint = TipHeightPath
  /\ hist.last.returns = SLICE_END + 1
  /\ hist.fetches = 2
  /\ hist.written[BlockTxs] # {}
  /\ getImmutable(BlockTxs).present
  /\ getImmutable(TxKey(CoinbaseTx.txid)).present
  /\ ~immutableCache[TipHeightPath].present


\* C31: handler fallback on an empty live cache.  A dashboard handler that
\* finds getDashboard() absent calls updateManager() exactly once and reads
\* the cache again, and not before the run its call started has ended; is
\* the snapshot still absent, the API handler answers 503 and the page
\* handler fetches blocks and tip height directly and renders them, or
\* the error page if that fetch fails.  A snapshot a handler answers with
\* holds every field, all written by one run.
C31_HandlerFallback ==
  /\ [][\A h \in DOMAIN handlers :
          LET a == handlers[h]
              b == handlers'[h]
              dashboardData == getDashboard
          IN /\ (a.pc = "idle" /\ b.pc # "idle") =>
                  IF dashboardData.present
                  THEN /\ b.pc = "done" /\ b.calls = 0
                       /\ b.response = FromCache(dashboardData.value)
                       /\ UNCHANGED << cycleCount, cycles >>
                  ELSE /\ b.pc = "awaiting" /\ b.calls = 1
                       /\ IF updateManagerRunning
                          THEN b.run = 0 /\ UNCHANGED << cycleCount, cycles >>
                          ELSE /\ cycleCount' = cycleCount + 1
                               /\ b.run = cycleCount'
                               /\ InFlight' = InFlight \cup {b.run}
             /\ (a.pc = "awaiting" /\ b.pc # "awaiting") =>
                  /\ a.run \notin InFlight
                  /\ b.calls = 1
                  /\ UNCHANGED << cycleCount, cycles >>
                  /\ IF dashboardData.present
                     THEN /\ b.pc = "done"
                          /\ b.response = FromCache(dashboardData.value)
                     ELSE IF a.kind = "api"
                     THEN b.pc = "done" /\ b.response = NotReady
                     ELSE b.pc = "blocks"
             /\ (a.pc \in {"blocks", "tip"} /\ b # a) =>
                  /\ a.kind = "page"
                  /\ UNCHANGED << cycleCount, cycles, liveCache >>
                  /\ b.calls = 1
                  /\ \/ a.pc = "blocks" /\ b.pc = "tip"
                     \/ b.pc = "done" /\ b.response = Caught("page")
                     \/ /\ b.pc = "done"
                        /\ b.response.from = "direct"
                        /\ a.pc = "tip"
                        /\ b.response.data.blocks =
                             Slice(a.blocks.v, 0, SLICE_END)
                        /\ b.response.data.tipHeight \in TipHeights
                        /\ b.response.data.hashrate = 0
                        /\ b.response.data.avgBlockTime =
                             DEFAULT_BLOCK_TIME]_vars
  /\ [](\A h \in DOMAIN handlers :
          (handlers[h].pc = "done" /\ handlers[h].response.from = "cache") =>
            LET d == handlers[h].response.data
            IN /\ DOMAIN d = SnapshotFields \cup {"by"}
               /\ \A x, y \in SnapshotFields : d.by[x] = d.by[y])

\* The run a page request started has aborted and left the cache empty:
\* the page is rendered from the direct fetch.  An API request whose call
\* was dropped or whose run aborted has answered 503.
C31_Witness ==
  /\ \E h \in DOMAIN handlers :
       /\ handlers[h].pc = "done" /\ handlers[h].kind = "page"
       /\ handlers[h].run # 0
       /\ handlers[h].response.from = "direct"
       /\ handlers[h].response.data.blocks # <<>>
  /\ \E h \in DOMAIN handlers :
       /\ handlers[h].pc = "done" /\ handlers[h].kind = "api"
       /\ handlers[h].response = NotReady

====
